---------------------------- MODULE Spec2Model ----------------------------
(***************************************************************************)
(* Model of the request edge of ferrous: the fixed-window rate limiter     *)
(* (src/src/rate_limit.rs) and the JWKS cache with the token validator     *)
(* (src/src/auth.rs).  Every async fn is cut at its await points and at    *)
(* the reads and writes of shared state in between, so that interleavings  *)
(* of concurrent requests are explicit.                                    *)
(***************************************************************************)
EXTENDS Integers, Sequences, FiniteSets, TLC

(* ------------------------------ bounds -------------------------------- *)
\* largest configured max_requests explored
MaxLimit == 2
\* largest configured window_duration explored (clock units)
MaxWindow == 2
\* last reading of the monotonic clock (Instant)
MaxTime == 3
\* total number of check_rate_limit calls in one behaviour
MaxCalls == 4

\* last reading of the wall clock (SystemTime)
MaxSysTime == 2
\* AuthConfig.jwks_cache_duration, in wall-clock units
CacheTtl == 1
\* total number of validate_token calls in one behaviour
MaxAuthCalls == 2
\* requests that enter the middleware stack in one behaviour
MaxRequests == 2
\* items the repository creates in one behaviour
MaxItems == 2
\* longest text of a forwarding header, in units
MaxHeaderLen == 3
\* Validation.leeway, in wall-clock units
Leeway == 1

\* concurrent requests (tokio tasks)
Tasks == {"t1", "t2", "t3"}
\* the requests that reach the rate limiter
RlTasks == {"t1", "t2"}
\* client identities (IpAddr)
Ips == {"ipA", "ipB"}
NoTask == "none"
\* key ids, and the key sets an issuer may publish
Kids == {"K1", "K2"}
NoKid == "nokid"
KeySets == {{"K1"}, {"K2"}}
\* AuthConfig.jwks_urls, in declaration order
jwks_urls == <<"urlA", "urlB">>
Urls == {jwks_urls[i] : i \in 1..Len(jwks_urls)}

VARIABLES
    \* ---- rate limiter (src/src/rate_limit.rs) ----
    rl_enabled,        \* RateLimitConfig.enabled
    max_requests,      \* RateLimitConfig.max_requests
    window_duration,   \* RateLimitConfig.window_duration
    windows,           \* RateLimiter.windows: HashMap<IpAddr, Window>
    rl_mutex,          \* holder of the tokio Mutex around windows
    clock,             \* Instant::now()
    rl_pc,             \* position of each task inside check_rate_limit
    rl_ip,             \* argument ip of the running call
    rl_now,            \* local `now` (line 99)
    rl_res,            \* value returned by the call
    \* ---- history of the rate limiter, read only by the properties ----
    rl_seen,           \* reset_at the call found in its window (line 107)
    rl_log,            \* per identity: results since the window was created/reset
    rl_resets,         \* per identity: the stale windows that resets acted on
    rl_calls           \* number of calls made so far

VARIABLES
    \* ---- JWKS cache and token validator (src/src/auth.rs) ----
    sysclock,          \* SystemTime::now()
    served,            \* the key set each issuer URL currently publishes
    jwks_cache,        \* JwtValidator.jwks_cache: HashMap<String, JwksCache>
    readers,           \* tasks holding a read guard of the RwLock
    writer,            \* task holding the write guard of the RwLock
    a_pc,              \* position of each task inside validate_token / get_jwks
    a_tok,             \* argument token of the running validate_token
    a_idx,             \* index of the loop over jwks_urls (line 188)
    a_jwks,            \* local `jwks` of fetch_jwks / get_jwks
    a_get,             \* value returned by get_jwks
    a_res,             \* value returned by validate_token
    \* ---- history of the cache, read only by the properties ----
    a_seen,            \* what the lookup of the running get_jwks found
    a_issued,          \* fetches issued by the running get_jwks
    a_stale,           \* URLs whose stale entry held the kid when the refresh failed
    a_failed,          \* URLs whose get_jwks returned an error during the running call
    a_miss,            \* URLs the loop of the running call went past without a key
    a_match,           \* URL whose key set supplied the key
    published,         \* per URL: the key sets the issuer has published so far
    last_fetch,        \* per URL: key set of the fetch that completed last
    last_locked,       \* per URL: key set of the refresher that locked last
    a_budget,          \* validate_token calls still to be made in this behaviour
    active             \* the tasks that carry requests in this behaviour

VARIABLES
    \* ---- AuthConfig (src/src/auth.rs, lines 31-42) ----
    auth_enabled,      \* AuthConfig.enabled
    audience,          \* AuthConfig.audience: Option<String>
    issuer,            \* AuthConfig.issuer: Option<String>
    url_count,         \* AuthConfig.jwks_urls holds the first url_count entries of jwks_urls
    validate_aud       \* Validation.validate_aud as Validation::new leaves it

VARIABLES
    \* ---- validate_client_assertion (src/src/auth.rs, lines 372-392) ----
    vca_pc,            \* position of each task inside validate_client_assertion
    vca_cid,           \* argument client_id
    vca_res            \* value returned by validate_client_assertion

VARIABLES
    \* ---- the middleware stack (src/src/middleware/mod.rs) ----
    auth_stage,        \* "jwks": auth.rs auth_middleware; "secret": middleware/auth.rs
    jwt_secret,        \* middleware::auth::AuthConfig.jwt_secret: Option<String>
    rl_impl,           \* "core": rate_limit.rs; "middleware": middleware/rate_limit.rs
    p_pc,              \* the stage each request is at
    p_req,             \* the request: Authorization header, token, client identity
    p_claims,          \* Claims in the request extensions
    p_resp,            \* the response produced so far
    \* ---- history of the request, read only by the properties ----
    p_auth,            \* how the token-validation stage ended
    p_trace,           \* the stages that ran, in order
    p_budget,          \* requests still to arrive in this behaviour
    p_in,              \* the inbound X-Request-Id header of the request
    p_loc,             \* locals the layers keep while next.run is pending
    p_hdrs,            \* the headers of the response that left the stack
    uuid_next,         \* serial of the next Uuid::new_v4()
    p_fwd              \* the X-Forwarded-For and X-Real-IP headers of the request

VARIABLES
    \* ---- configuration (src/src/config.rs) ----
    cfg_max_requests   \* config::RateLimitConfig.max_requests: u64, as two 32-bit halves

VARIABLES
    \* ---- InMemoryItemRepository (src/src/database/implementations/in_memory.rs) ----
    data,              \* data: RwLock<HashMap<String, Item>>
    id_next,           \* serial of the next Uuid::new_v4() of create
    repo_last,         \* the last call and what it returned
    live               \* history: ids returned by create and not deleted since

VARIABLES
    \* ---- cancellation (a request future dropped by the server) ----
    dropped            \* the suspension points at which a request was cancelled so far

auth_vars == <<sysclock, served, jwks_cache, readers, writer, a_pc, a_tok, a_idx,
               a_jwks, a_get, a_res, a_seen, a_issued, a_stale, a_failed, a_miss, a_match,
               published, last_fetch, last_locked, a_budget, active>>

rl_vars == <<rl_enabled, max_requests, window_duration, windows, rl_mutex, clock,
             rl_pc, rl_ip, rl_now, rl_res, rl_seen, rl_log, rl_resets, rl_calls>>

\* configuration of the validator and of the auth stage, fixed after start-up
cfg_vars == <<auth_enabled, audience, issuer, url_count, validate_aud>>

\* the call of validate_client_assertion each task is in
vca_vars == <<vca_pc, vca_cid, vca_res>>

\* which auth_middleware is the token-validation stage, and its secret
stage_vars == <<auth_stage, jwt_secret, rl_impl>>

\* the request each task carries through the middleware stack
pl_vars == <<p_pc, p_req, p_claims, p_auth, p_trace, p_resp, p_budget>>

\* what the layers keep for, and put on, the response
out_vars == <<p_in, p_loc, p_hdrs, uuid_next, p_fwd>>

\* the history of cancellations
drop_vars == <<dropped>>

\* the loaded configuration the limiter is built from
conv_vars == <<cfg_max_requests>>

\* the item repository
repo_vars == <<data, id_next, repo_last, live>>

ext_vars == <<cfg_vars, conv_vars, repo_vars, drop_vars, vca_vars, stage_vars, pl_vars, out_vars>>

vars == <<rl_vars, auth_vars, ext_vars>>

(* ========================= rate limiter =============================== *)

NoResult == [kind |-> "none", limit |-> 0, remaining |-> 0, reset_at |-> 0]
\* Ok((limit, remaining, reset_at))
RlOk(limit, remaining, reset_at) ==
    [kind |-> "Ok", limit |-> limit, remaining |-> remaining, reset_at |-> reset_at]
\* Err(StatusCode::TOO_MANY_REQUESTS)
RlErr == [kind |-> "Err", limit |-> 0, remaining |-> 0, reset_at |-> 0]

\* Window { count: 0, reset_at: now + window_duration }
NewWindow(now) == [count |-> 0, reset_at |-> now + window_duration]

\* the lock() future resolves only when nobody holds the mutex
MutexGrantedAlways == TRUE
MutexAvailable == rl_mutex = NoTask

\* windows.entry(ip) (line 101): the map is keyed by the client identity
WindowKeyShared(ip) == "ipA"
WindowKey(ip) == ip

\* now >= window.reset_at
WindowExpired(w, now) == now >= w.reset_at

\* window.count = 0; window.reset_at = now + window_duration
WindowResetFromPrevious(w, now) == [count |-> 0, reset_at |-> w.reset_at + window_duration]
WindowResetKeepsCount(w, now) == [count |-> w.count, reset_at |-> now + window_duration]
WindowReset(w, now) == [count |-> 0, reset_at |-> now + window_duration]

\* window.count >= self.config.max_requests
LimitReachedOffByOne(w) == w.count > max_requests
LimitReached(w) == w.count >= max_requests

\* if !self.config.enabled { return Ok(..) } before the lock is requested
EarlyReturnNever == FALSE
EarlyReturn == ~rl_enabled

\* the remaining the disabled limiter reports: 0 in rate_limit.rs (line 95),
\* requests_per_minute in middleware/rate_limit.rs (line 69)
DisabledRemaining == IF rl_impl = "middleware" THEN max_requests ELSE 0

RlInit ==
    /\ rl_enabled \in BOOLEAN
    /\ max_requests \in 1..MaxLimit
    /\ window_duration \in 1..MaxWindow
    /\ windows = << >>
    /\ rl_mutex = NoTask
    /\ clock = 0
    /\ rl_pc = [t \in RlTasks |-> "idle"]
    /\ rl_ip = [t \in RlTasks |-> "ipA"]
    /\ rl_now = [t \in RlTasks |-> 0]
    /\ rl_res = [t \in RlTasks |-> NoResult]
    /\ rl_seen = [t \in RlTasks |-> 0]
    /\ rl_log = [i \in Ips |-> << >>]
    /\ rl_resets = [i \in Ips |-> << >>]
    /\ rl_calls = 0

\* the monotonic clock advances
Tick ==
    /\ clock < MaxTime
    /\ clock' = clock + 1
    /\ UNCHANGED <<auth_vars, ext_vars>>
    /\ UNCHANGED <<rl_enabled, max_requests, window_duration, windows, rl_mutex,
                   rl_pc, rl_ip, rl_now, rl_res, rl_seen, rl_log, rl_resets, rl_calls>>

\* check_rate_limit is called; when disabled it returns at once (lines 94-96)
RlCall(t, ip) ==
    /\ rl_pc[t] = "idle"
    /\ rl_calls < MaxCalls
    /\ rl_calls' = rl_calls + 1
    /\ rl_ip' = [rl_ip EXCEPT ![t] = ip]
    /\ IF EarlyReturn
       THEN /\ rl_res' = [rl_res EXCEPT ![t] =
                              RlOk(max_requests, DisabledRemaining, clock + window_duration)]
            /\ rl_pc' = [rl_pc EXCEPT ![t] = "done"]
       ELSE /\ rl_pc' = [rl_pc EXCEPT ![t] = "lock"]
            /\ UNCHANGED rl_res
    /\ UNCHANGED <<auth_vars, ext_vars>>
    /\ UNCHANGED <<rl_enabled, max_requests, window_duration, windows, rl_mutex, clock,
                   rl_now, rl_seen, rl_log, rl_resets>>

\* self.windows.lock().await (line 98)
RlLock(t) ==
    /\ rl_pc[t] = "lock"
    /\ MutexAvailable
    /\ rl_mutex' = t
    /\ rl_pc' = [rl_pc EXCEPT ![t] = "entry"]
    /\ UNCHANGED <<auth_vars, ext_vars>>
    /\ UNCHANGED <<rl_enabled, max_requests, window_duration, windows, clock,
                   rl_ip, rl_now, rl_res, rl_seen, rl_log, rl_resets, rl_calls>>

\* let now = Instant::now(); windows.entry(ip).or_insert(..) (lines 99-104)
RlEntry(t) ==
    /\ rl_pc[t] = "entry"
    /\ rl_now' = [rl_now EXCEPT ![t] = clock]
    /\ windows' = IF WindowKey(rl_ip[t]) \in DOMAIN windows
                  THEN windows
                  ELSE [i \in DOMAIN windows \cup {WindowKey(rl_ip[t])} |->
                           IF i = WindowKey(rl_ip[t]) THEN NewWindow(clock) ELSE windows[i]]
    /\ rl_seen' = [rl_seen EXCEPT ![t] = windows'[WindowKey(rl_ip[t])].reset_at]
    /\ rl_pc' = [rl_pc EXCEPT ![t] = "expiry"]
    /\ UNCHANGED <<auth_vars, ext_vars>>
    /\ UNCHANGED <<rl_enabled, max_requests, window_duration, rl_mutex, clock,
                   rl_ip, rl_res, rl_log, rl_resets, rl_calls>>

\* if now >= window.reset_at (line 107)
RlTestExpired(t) ==
    /\ rl_pc[t] = "expiry"
    /\ rl_pc' = [rl_pc EXCEPT ![t] =
                    IF WindowExpired(windows[WindowKey(rl_ip[t])], rl_now[t]) THEN "reset" ELSE "limit"]
    /\ UNCHANGED <<auth_vars, ext_vars>>
    /\ UNCHANGED <<rl_enabled, max_requests, window_duration, windows, rl_mutex, clock,
                   rl_ip, rl_now, rl_res, rl_seen, rl_log, rl_resets, rl_calls>>

\* the body of the if (lines 108-109)
RlReset(t) ==
    /\ rl_pc[t] = "reset"
    /\ rl_resets' = [rl_resets EXCEPT ![rl_ip[t]] = Append(@, windows[WindowKey(rl_ip[t])])]
    /\ rl_log' = [rl_log EXCEPT ![rl_ip[t]] = << >>]
    /\ windows' = [windows EXCEPT ![WindowKey(rl_ip[t])] = WindowReset(@, rl_now[t])]
    /\ rl_pc' = [rl_pc EXCEPT ![t] = "limit"]
    /\ UNCHANGED <<auth_vars, ext_vars>>
    /\ UNCHANGED <<rl_enabled, max_requests, window_duration, rl_mutex, clock,
                   rl_ip, rl_now, rl_res, rl_seen, rl_calls>>

\* if window.count >= max_requests { return Err(..) } (lines 112-114);
\* returning drops the guard
RlTestLimit(t) ==
    /\ rl_pc[t] = "limit"
    /\ IF LimitReached(windows[WindowKey(rl_ip[t])])
       THEN /\ rl_res' = [rl_res EXCEPT ![t] = RlErr]
            /\ rl_log' = [rl_log EXCEPT ![rl_ip[t]] = Append(@, RlErr)]
            /\ rl_mutex' = NoTask
            /\ rl_pc' = [rl_pc EXCEPT ![t] = "done"]
       ELSE /\ rl_pc' = [rl_pc EXCEPT ![t] = "incr"]
            /\ UNCHANGED <<rl_res, rl_log, rl_mutex>>
    /\ UNCHANGED <<auth_vars, ext_vars>>
    /\ UNCHANGED <<rl_enabled, max_requests, window_duration, windows, clock,
                   rl_ip, rl_now, rl_seen, rl_resets, rl_calls>>

\* window.count += 1; remaining = max_requests - count; Ok(..) (lines 116-119)
RlIncrement(t) ==
    /\ rl_pc[t] = "incr"
    /\ LET w == [windows[WindowKey(rl_ip[t])] EXCEPT !.count = @ + 1]
           r == RlOk(max_requests, max_requests - w.count, w.reset_at)
       IN /\ windows' = [windows EXCEPT ![WindowKey(rl_ip[t])] = w]
          /\ rl_res' = [rl_res EXCEPT ![t] = r]
          /\ rl_log' = [rl_log EXCEPT ![rl_ip[t]] = Append(@, r)]
    /\ rl_mutex' = NoTask
    /\ rl_pc' = [rl_pc EXCEPT ![t] = "done"]
    /\ UNCHANGED <<auth_vars, ext_vars>>
    /\ UNCHANGED <<rl_enabled, max_requests, window_duration, clock,
                   rl_ip, rl_now, rl_seen, rl_resets, rl_calls>>

\* the caller (rate_limit_middleware) consumes the result
RlReturn(t) ==
    /\ rl_pc[t] = "done"
    /\ rl_pc' = [rl_pc EXCEPT ![t] = "idle"]
    /\ rl_res' = [rl_res EXCEPT ![t] = NoResult]
    /\ rl_now' = [rl_now EXCEPT ![t] = 0]
    /\ rl_seen' = [rl_seen EXCEPT ![t] = 0]
    /\ rl_ip' = [rl_ip EXCEPT ![t] = "ipA"]
    /\ UNCHANGED <<auth_vars, ext_vars>>
    /\ UNCHANGED <<rl_enabled, max_requests, window_duration, windows, rl_mutex, clock,
                   rl_log, rl_resets, rl_calls>>

RlNext ==
    \/ Tick
    \/ \E t \in RlTasks, ip \in Ips : RlCall(t, ip)
    \/ \E t \in RlTasks : RlLock(t)
    \/ \E t \in RlTasks : RlEntry(t)
    \/ \E t \in RlTasks : RlTestExpired(t)
    \/ \E t \in RlTasks : RlReset(t)
    \/ \E t \in RlTasks : RlTestLimit(t)
    \/ \E t \in RlTasks : RlIncrement(t)
    \/ \E t \in RlTasks : RlReturn(t)


(* ------------------- properties of the rate limiter ------------------- *)

\* positions at which a task holds the guard of `windows`
RlCritical == {"entry", "expiry", "reset", "limit", "incr"}

\* C1: with rate limiting enabled and no reset in between, the checks of one
\* identity are Allowed exactly for the first max_requests calls, with
\* remaining = N-1, N-2, ..., 0 in that order, and every later call is Blocked.
C1_FirstNAllowedThenBlocked ==
    \A ip \in Ips : \A i \in 1..Len(rl_log[ip]) :
        IF i <= max_requests
        THEN rl_log[ip][i] = RlOk(max_requests, max_requests - i, rl_log[ip][i].reset_at)
        ELSE rl_log[ip][i] = RlErr

\* C1 witness: a window that served all N allowed calls and then blocked one
C1_Witness ==
    \E ip \in Ips : max_requests = MaxLimit /\ Len(rl_log[ip]) = max_requests + 1

\* C2: under any interleaving the reset-check-increment sequence is atomic:
\* one task at a time is inside it, no more than max_requests calls are
\* Allowed between two resets of an identity, and no stale reset_at is acted
\* on by two resets.
C2_AtomicResetCheckIncrement ==
    /\ \A t1, t2 \in RlTasks :
          (rl_pc[t1] \in RlCritical /\ rl_pc[t2] \in RlCritical) => t1 = t2
    /\ \A ip \in Ips :
          Cardinality({i \in 1..Len(rl_log[ip]) : rl_log[ip][i].kind = "Ok"}) <= max_requests
    /\ \A ip \in Ips : \A i, j \in 1..Len(rl_resets[ip]) :
          rl_resets[ip][i].reset_at = rl_resets[ip][j].reset_at => i = j

\* C2 witness: one task is resetting an expired window while another call for
\* the same identity waits for the lock
C2_Witness ==
    \E t1, t2 \in RlTasks :
        /\ t1 # t2
        /\ rl_ip[t1] = rl_ip[t2]
        /\ rl_pc[t1] = "lock"
        /\ rl_pc[t2] = "reset"
        /\ windows[rl_ip[t2]].count = max_requests

\* C3: a check that finds now >= reset_at resets count to 0, sets
\* reset_at = now + window and returns Allowed with remaining = max_requests - 1,
\* whatever the previous window counted.
C3_RolloverResets ==
    \A t \in RlTasks :
        (rl_enabled /\ rl_now[t] >= rl_seen[t]) =>
            /\ rl_pc[t] = "limit" => windows[rl_ip[t]] = [count |-> 0,
                                        reset_at |-> rl_now[t] + window_duration]
            /\ rl_pc[t] = "incr" => windows[rl_ip[t]].count = 0
            /\ rl_pc[t] = "done" =>
                  rl_res[t] = RlOk(max_requests, max_requests - 1,
                                   rl_now[t] + window_duration)

\* C3 witness: a call returned after resetting a window that was full
C3_Witness ==
    \E t \in RlTasks :
        /\ rl_enabled /\ rl_pc[t] = "done" /\ rl_now[t] >= rl_seen[t]
        /\ Len(rl_resets[rl_ip[t]]) > 0
        /\ rl_resets[rl_ip[t]][Len(rl_resets[rl_ip[t]])].count = max_requests
        /\ max_requests = MaxLimit

(* =================== JWKS cache and token validator =================== *)

AuthTasks == Tasks

\* Option::None of an optional string
None == "None"

\* header.alg, and the family jsonwebtoken assigns to an algorithm
Algs == {"RS256", "ES256", "HS256"}
AlgFamily(alg) ==
    CASE alg = "RS256" -> "Rsa"
      [] alg = "ES256" -> "Ec"
      [] OTHER -> "Hmac"

\* the JWK an issuer publishes under a kid (every issuer has key material of
\* its own, also under a kid that another issuer uses), and the family
\* DecodingKey::from_jwk gives it: K1 keys are RSA keys, K2 keys EC keys, a
\* shared secret is an HMAC key
KeyOf(u, kid) == [issuer_url |-> u, kid |-> kid]
NoKey == [issuer_url |-> "none", kid |-> NoKid]
KeyFamily(key) ==
    CASE key.kid = "K1" -> "Rsa"
      [] key.kid = "K2" -> "Ec"
      [] OTHER -> "Hmac"

\* Claims { sub, exp, iss, aud } (lines 19-27)
Subjects == {"user-42", "client-1"}
ClaimsOf(tok) == [sub |-> tok.sub, exp |-> tok.exp, iss |-> tok.iss, aud |-> tok.aud]
NoClaims == [sub |-> None, exp |-> 0, iss |-> None, aud |-> None]

\* an expiry no clock reading of the model reaches
FarExp == MaxSysTime + Leeway + 1

\* a token: whether decode_header can parse it, the kid and alg of its
\* header, the key whose material made its signature, and its claims
Token(kid, alg, signer, exp, aud, iss, sub) ==
    [wellformed |-> TRUE, kid |-> kid, alg |-> alg, signer |-> signer,
     exp |-> exp, aud |-> aud, iss |-> iss, sub |-> sub]
Malformed ==
    [wellformed |-> FALSE, kid |-> NoKid, alg |-> "RS256", signer |-> NoKey,
     exp |-> 0, aud |-> None, iss |-> None, sub |-> "user-42"]
NoToken == Malformed

\* the tokens presented while the cache is exercised: one the first issuer
\* signed with its K1, one with kid K2 and a signature of nobody, one without
\* a kid, one that decode_header rejects
Tokens ==
    { Token("K1", "RS256", KeyOf(jwks_urls[1], "K1"), FarExp, None, None, "user-42"),
      Token("K2", "ES256", NoKey, FarExp, None, None, "user-42"),
      Token(NoKid, "RS256", KeyOf(jwks_urls[1], "K1"), FarExp, None, None, "user-42"),
      Malformed }

\* AuthConfig.jwks_cache_duration
jwks_cache_duration == CacheTtl

\* how a fetch can end
FetchOutcomes == {"ok", "transport_error", "bad_status", "malformed_body"}

NoGet == [kind |-> "none", jwks |-> {}]
GetOk(jwks) == [kind |-> "Ok", jwks |-> jwks]
\* AuthError::JwksFetchError(_), whatever the message
GetErr == [kind |-> "JwksFetchError", jwks |-> {}]

NoAuthResult == [kind |-> "none", detail |-> "", claims |-> NoClaims]
\* Ok(TokenData<Claims>)
VtOk(claims) == [kind |-> "Ok", detail |-> "", claims |-> claims]
\* AuthError::InvalidToken(detail)
InvalidToken(detail) == [kind |-> "InvalidToken", detail |-> detail, claims |-> NoClaims]

\* Validation::new(alg): the algorithm of the caller, no audience, no issuer
ValidationNew(alg) == [algorithms |-> {alg}, aud |-> None, iss |-> None]
\* the policy of validate_token (lines 204-213): the algorithm of the token
\* header, the audience and the issuer when they are configured
PolicyFor(alg) == [ValidationNew(alg) EXCEPT !.aud = audience, !.iss = issuer]

\* jsonwebtoken::decode: the key must belong to the family of every allowed
\* algorithm and the header algorithm must be allowed, then the signature,
\* then exp (required, with the leeway), then iss and aud, which are compared
\* only when the token carries them; a token that carries an aud while no
\* audience is set fails when validate_aud is on
KeyFitsAnyAlgorithm(key, v) == TRUE
KeyFitsAlgorithms(key, v) == \A a \in v.algorithms : KeyFamily(key) = AlgFamily(a)
ExpiredInclusive(exp, now) == exp <= now
Expired(exp, now) == exp < now - Leeway
Decode(tok, key, v, now) ==
    IF ~tok.wellformed THEN InvalidToken("decode")
    ELSE IF ~KeyFitsAlgorithms(key, v) THEN InvalidToken("decode")
    ELSE IF tok.alg \notin v.algorithms THEN InvalidToken("decode")
    ELSE IF tok.signer # key THEN InvalidToken("decode")
    ELSE IF Expired(tok.exp, now) THEN InvalidToken("decode")
    ELSE IF v.iss # None /\ tok.iss # None /\ tok.iss # v.iss THEN InvalidToken("decode")
    ELSE IF tok.aud # None /\ v.aud = None /\ validate_aud THEN InvalidToken("decode")
    ELSE IF tok.aud # None /\ v.aud # None /\ tok.aud # v.aud THEN InvalidToken("decode")
    ELSE VtOk(ClaimsOf(tok))

NotSeen == [present |-> FALSE, live |-> FALSE, jwks |-> {}, fetched_at |-> 0]

\* the URL the loop of validate_token is at
UrlOf(t) == jwks_urls[a_idx[t]]

\* cached.fetched_at.elapsed().unwrap_or(Duration::MAX) < jwks_cache_duration:
\* elapsed() is Err when the wall clock reads before fetched_at
CacheFreshInclusive(entry, now) ==
    IF now >= entry.fetched_at THEN now - entry.fetched_at <= jwks_cache_duration ELSE FALSE
CacheFresh(entry, now) ==
    IF now >= entry.fetched_at THEN now - entry.fetched_at < jwks_cache_duration ELSE FALSE

\* cache.insert(url, JwksCache { jwks, fetched_at: SystemTime::now() })
CacheInsertMerging(cache, url, jwks, now) ==
    [u \in DOMAIN cache \cup {url} |->
        IF u = url
        THEN [jwks |-> (IF url \in DOMAIN cache THEN cache[url].jwks ELSE {}) \cup jwks,
              fetched_at |-> now]
        ELSE cache[u]]
CacheInsert(cache, url, jwks, now) ==
    [u \in DOMAIN cache \cup {url} |->
        IF u = url THEN [jwks |-> jwks, fetched_at |-> now] ELSE cache[u]]

\* the cache after `self.fetch_jwks(url).await?` returned early with the error
CacheEvictOnFetchError(cache, url) == [u \in DOMAIN cache \ {url} |-> cache[u]]
CacheAfterFetchError(cache, url) == cache

\* what get_jwks returns when fetch_jwks failed: the `?` propagates the error
GetServeStaleOnFetchError(cache, url) ==
    IF url \in DOMAIN cache THEN GetOk(cache[url].jwks) ELSE GetErr
GetOnFetchError(cache, url) == GetErr

\* the read guard is dropped at the end of the lookup block (line 158)
ReadGuardKept(t) == readers
ReadGuardDropped(t) == readers \ {t}

\* tokio RwLock: read() resolves when no writer holds the lock, write() when
\* nobody holds it
ReadLockAvailable == writer = NoTask
WriteLockSharedWithWriters == readers = {}
WriteLockAvailable == writer = NoTask /\ readers = {}

\* the key set each issuer publishes at start: the first issuer holds K1,
\* the others K2
InitialKeys(u) == IF u = jwks_urls[1] THEN {"K1"} ELSE {"K2"}

\* JwtValidator::new: an empty cache, and no request in progress
AuthIdle ==
    /\ jwks_cache = << >>
    /\ readers = {}
    /\ writer = NoTask
    /\ a_pc = [t \in AuthTasks |-> "idle"]
    /\ a_tok = [t \in AuthTasks |-> NoToken]
    /\ a_idx = [t \in AuthTasks |-> 0]
    /\ a_jwks = [t \in AuthTasks |-> {}]
    /\ a_get = [t \in AuthTasks |-> NoGet]
    /\ a_res = [t \in AuthTasks |-> NoAuthResult]
    /\ a_seen = [t \in AuthTasks |-> NotSeen]
    /\ a_issued = [t \in AuthTasks |-> 0]
    /\ a_stale = [t \in AuthTasks |-> {}]
    /\ a_failed = [t \in AuthTasks |-> {}]
    /\ a_miss = [t \in AuthTasks |-> {}]
    /\ a_match = [t \in AuthTasks |-> "none"]
    /\ last_fetch = [u \in Urls |-> {}]
    /\ last_locked = [u \in Urls |-> {}]

AuthInit ==
    /\ sysclock = 0
    /\ served = [u \in Urls |-> InitialKeys(u)]
    /\ published = [u \in Urls |-> {InitialKeys(u)}]
    /\ AuthIdle

\* the wall clock advances
SysTick ==
    /\ sysclock < MaxSysTime
    /\ sysclock' = sysclock + 1
    /\ UNCHANGED <<rl_vars, ext_vars>>
    /\ UNCHANGED <<served, jwks_cache, readers, writer, a_pc, a_tok, a_idx, a_jwks, a_get,
                   a_res, a_seen, a_issued, a_stale, a_failed, a_miss, a_match, published,
                   last_fetch, last_locked, a_budget, active>>

\* an issuer rotates its keys: it publishes another key set, once
Rotate(u, ks) ==
    /\ served[u] = InitialKeys(u)
    /\ ks # served[u]
    /\ served' = [served EXCEPT ![u] = ks]
    /\ published' = [published EXCEPT ![u] = @ \cup {ks}]
    /\ UNCHANGED <<rl_vars, ext_vars>>
    /\ UNCHANGED <<sysclock, jwks_cache, readers, writer, a_pc, a_tok, a_idx, a_jwks, a_get,
                   a_res, a_seen, a_issued, a_stale, a_failed, a_miss, a_match,
                   last_fetch, last_locked, a_budget, active>>

\* position after the loop variable moved to index i: the next get_jwks, or
\* the end of the loop (line 221)
LoopPc(i) == IF i <= url_count THEN "read_lock" ELSE "done"
LoopResUnspecific(i) ==
    IF i <= url_count THEN NoAuthResult ELSE InvalidToken("decode")
LoopRes(i) ==
    IF i <= url_count THEN NoAuthResult
    ELSE InvalidToken("No matching key found in JWKS")

\* header.kid.ok_or_else(..)? (lines 183-185): a header without kid is an error
MissingKidTolerated(tok) == FALSE
MissingKid(tok) == tok.kid = NoKid

\* Err(_) => continue (line 191), and the end of a loop body that found no key
\* with the kid: the loop moves to the next URL
AbortOnFetchError(get, i) == IF get.kind = "JwksFetchError" THEN url_count + 1 ELSE i + 1
ContinueAfter(get, i) == i + 1

\* return decode::<Claims>(token, &key, &validation).map_err(..) (lines 215-216):
\* inside the `if let Some(jwk)` the function returns what decode gave, Ok or Err
ReturnsOnlyOk(res) == res.kind = "Ok"
ReturnsDecoded(res) == TRUE

\* validate_token is called: decode_header and the kid (lines 181-185), then
\* the loop is entered
VtCall(t, tok) ==
    /\ a_pc[t] = "idle"
    /\ t \in active
    /\ a_budget > 0
    /\ a_budget' = a_budget - 1
    /\ a_tok' = [a_tok EXCEPT ![t] = tok]
    /\ IF ~tok.wellformed
       THEN /\ a_res' = [a_res EXCEPT ![t] = InvalidToken("decode_header")]
            /\ a_pc' = [a_pc EXCEPT ![t] = "done"]
            /\ UNCHANGED a_idx
       ELSE IF MissingKid(tok)
       THEN /\ a_res' = [a_res EXCEPT ![t] = InvalidToken("Missing kid in JWT header")]
            /\ a_pc' = [a_pc EXCEPT ![t] = "done"]
            /\ UNCHANGED a_idx
       ELSE /\ a_idx' = [a_idx EXCEPT ![t] = 1]
            /\ a_pc' = [a_pc EXCEPT ![t] = LoopPc(1)]
            /\ a_res' = [a_res EXCEPT ![t] = LoopRes(1)]
    /\ UNCHANGED <<rl_vars, ext_vars>>
    /\ UNCHANGED <<sysclock, served, jwks_cache, readers, writer, a_jwks, a_get,
                   a_seen, a_issued, a_stale, a_failed, a_miss, a_match, published,
                   last_fetch, last_locked, active>>

\* get_jwks: self.jwks_cache.read().await (line 150)
GetReadLock(t) ==
    /\ a_pc[t] = "read_lock"
    /\ ReadLockAvailable
    /\ readers' = readers \cup {t}
    /\ a_pc' = [a_pc EXCEPT ![t] = "lookup"]
    /\ UNCHANGED <<rl_vars, ext_vars>>
    /\ UNCHANGED <<sysclock, served, jwks_cache, writer, a_tok, a_idx, a_jwks, a_get,
                   a_res, a_seen, a_issued, a_stale, a_failed, a_miss, a_match, published,
                   last_fetch, last_locked, a_budget, active>>

\* get_jwks: the lookup under the read guard (lines 151-158); a fresh entry is
\* returned, otherwise the guard is dropped and fetch_jwks sends its request
\* (lines 125-130).  a_seen records the entry found and whether it was live
\* by the clock readings (now - fetched_at < ttl).
GetLookup(t) ==
    /\ a_pc[t] = "lookup"
    /\ LET u == UrlOf(t)
           hit == u \in DOMAIN jwks_cache /\ CacheFresh(jwks_cache[u], sysclock)
       IN /\ a_seen' = [a_seen EXCEPT ![t] =
                 IF u \in DOMAIN jwks_cache
                 THEN [present |-> TRUE,
                       live |-> sysclock - jwks_cache[u].fetched_at < jwks_cache_duration,
                       jwks |-> jwks_cache[u].jwks,
                       fetched_at |-> jwks_cache[u].fetched_at]
                 ELSE NotSeen]
          /\ IF hit
             THEN /\ a_get' = [a_get EXCEPT ![t] = GetOk(jwks_cache[u].jwks)]
                  /\ a_pc' = [a_pc EXCEPT ![t] = "find"]
                  /\ readers' = readers \ {t}
                  /\ UNCHANGED a_issued
             ELSE /\ a_pc' = [a_pc EXCEPT ![t] = "fetching"]
                  /\ readers' = ReadGuardDropped(t)
                  /\ a_issued' = [a_issued EXCEPT ![t] = @ + 1]
                  /\ UNCHANGED a_get
    /\ UNCHANGED <<rl_vars, ext_vars>>
    /\ UNCHANGED <<sysclock, served, jwks_cache, writer, a_tok, a_idx, a_jwks,
                   a_res, a_stale, a_failed, a_miss, a_match, published,
                   last_fetch, last_locked, a_budget, active>>

\* get_jwks returns the error of fetch_jwks through `?` (line 161)
GetFail(t) ==
    /\ jwks_cache' = CacheAfterFetchError(jwks_cache, UrlOf(t))
    /\ a_get' = [a_get EXCEPT ![t] = GetOnFetchError(jwks_cache, UrlOf(t))]
    /\ a_stale' = [a_stale EXCEPT ![t] =
            IF UrlOf(t) \in DOMAIN jwks_cache /\ a_tok[t].kid \in jwks_cache[UrlOf(t)].jwks
            THEN @ \cup {UrlOf(t)} ELSE @]
    /\ a_failed' = [a_failed EXCEPT ![t] = @ \cup {UrlOf(t)}]
    /\ a_jwks' = [a_jwks EXCEPT ![t] = {}]
    /\ a_pc' = [a_pc EXCEPT ![t] = "find"]

\* fetch_jwks (lines 124-144), awaited by get_jwks outside any guard: the
\* request ends in a transport error or timeout, a non-2xx status, a body that
\* is no JwkSet, or the key set the issuer publishes
FetchJwks(t, outcome) ==
    /\ a_pc[t] = "fetching"
    /\ IF outcome = "ok"
       THEN /\ a_jwks' = [a_jwks EXCEPT ![t] = served[UrlOf(t)]]
            /\ last_fetch' = [last_fetch EXCEPT ![UrlOf(t)] = served[UrlOf(t)]]
            /\ a_pc' = [a_pc EXCEPT ![t] = "write_lock"]
            /\ UNCHANGED <<jwks_cache, a_get, a_stale, a_failed>>
       ELSE /\ GetFail(t)
            /\ UNCHANGED last_fetch
    /\ UNCHANGED <<rl_vars, ext_vars>>
    /\ UNCHANGED <<sysclock, served, readers, writer, a_tok, a_idx,
                   a_res, a_seen, a_issued, a_miss, a_match, published,
                   last_locked, a_budget, active>>

\* get_jwks: self.jwks_cache.write().await (line 165)
GetWriteLock(t) ==
    /\ a_pc[t] = "write_lock"
    /\ WriteLockAvailable
    /\ writer' = t
    /\ last_locked' = [last_locked EXCEPT ![UrlOf(t)] = a_jwks[t]]
    /\ a_pc' = [a_pc EXCEPT ![t] = "insert"]
    /\ UNCHANGED <<rl_vars, ext_vars>>
    /\ UNCHANGED <<sysclock, served, jwks_cache, readers, a_tok, a_idx, a_jwks, a_get,
                   a_res, a_seen, a_issued, a_stale, a_failed, a_miss, a_match, published,
                   last_fetch, a_budget, active>>

\* get_jwks: cache.insert(..) under the write guard, then Ok(jwks)
\* (lines 166-175)
GetInsert(t) ==
    /\ a_pc[t] = "insert"
    /\ jwks_cache' = CacheInsert(jwks_cache, UrlOf(t), a_jwks[t], sysclock)
    /\ writer' = IF writer = t THEN NoTask ELSE writer
    /\ a_get' = [a_get EXCEPT ![t] = GetOk(a_jwks[t])]
    /\ a_pc' = [a_pc EXCEPT ![t] = "find"]
    /\ UNCHANGED <<rl_vars, ext_vars>>
    /\ UNCHANGED <<sysclock, served, readers, a_tok, a_idx, a_jwks,
                   a_res, a_seen, a_issued, a_stale, a_failed, a_miss, a_match, published,
                   last_fetch, last_locked, a_budget, active>>

\* validate_token: the match on get_jwks and the search of the kid
\* (lines 189-218); Err(_) => continue, a key with the kid is decoded against,
\* otherwise the loop goes on
VtFind(t) ==
    /\ a_pc[t] = "find"
    /\ IF /\ a_get[t].kind = "Ok" /\ a_tok[t].kid \in a_get[t].jwks
          /\ ReturnsDecoded(Decode(a_tok[t], KeyOf(UrlOf(t), a_tok[t].kid),
                                   PolicyFor(a_tok[t].alg), sysclock))
       THEN /\ a_res' = [a_res EXCEPT ![t] =
                   Decode(a_tok[t], KeyOf(UrlOf(t), a_tok[t].kid),
                          PolicyFor(a_tok[t].alg), sysclock)]
            /\ a_match' = [a_match EXCEPT ![t] = UrlOf(t)]
            /\ a_pc' = [a_pc EXCEPT ![t] = "done"]
            /\ UNCHANGED <<a_idx, a_miss>>
       ELSE /\ a_idx' = [a_idx EXCEPT ![t] = ContinueAfter(a_get[t], @)]
            /\ a_miss' = [a_miss EXCEPT ![t] = @ \cup {UrlOf(t)}]
            /\ a_pc' = [a_pc EXCEPT ![t] = LoopPc(ContinueAfter(a_get[t], a_idx[t]))]
            /\ a_res' = [a_res EXCEPT ![t] = LoopRes(ContinueAfter(a_get[t], a_idx[t]))]
            /\ UNCHANGED a_match
    /\ a_get' = [a_get EXCEPT ![t] = NoGet]
    /\ a_jwks' = [a_jwks EXCEPT ![t] = {}]
    /\ a_seen' = [a_seen EXCEPT ![t] = NotSeen]
    /\ a_issued' = [a_issued EXCEPT ![t] = 0]
    /\ UNCHANGED <<rl_vars, ext_vars>>
    /\ UNCHANGED <<sysclock, served, jwks_cache, readers, writer, a_tok, a_stale, a_failed,
                   published, last_fetch, last_locked, a_budget, active>>

\* the caller of validate_token consumes the result
VtReturn(t) ==
    /\ a_pc[t] = "done"
    /\ a_pc' = [a_pc EXCEPT ![t] = "idle"]
    /\ a_res' = [a_res EXCEPT ![t] = NoAuthResult]
    /\ a_tok' = [a_tok EXCEPT ![t] = NoToken]
    /\ a_idx' = [a_idx EXCEPT ![t] = 0]
    /\ a_stale' = [a_stale EXCEPT ![t] = {}]
    /\ a_failed' = [a_failed EXCEPT ![t] = {}]
    /\ a_miss' = [a_miss EXCEPT ![t] = {}]
    /\ a_match' = [a_match EXCEPT ![t] = "none"]
    /\ UNCHANGED <<rl_vars, ext_vars>>
    /\ UNCHANGED <<sysclock, served, jwks_cache, readers, writer, a_jwks, a_get,
                   a_seen, a_issued, published,
                   last_fetch, last_locked, a_budget, active>>

\* one step of task t inside validate_token
AuthStep(t) ==
    \/ GetReadLock(t)
    \/ GetLookup(t)
    \/ \E o \in FetchOutcomes : FetchJwks(t, o)
    \/ GetWriteLock(t)
    \/ GetInsert(t)
    \/ VtFind(t)
    \/ VtReturn(t)

AuthNext ==
    \/ SysTick
    \/ \E u \in Urls, ks \in KeySets : Rotate(u, ks)
    \/ \E t \in AuthTasks, tok \in Tokens : VtCall(t, tok)
    \/ \E t \in AuthTasks : GetReadLock(t)
    \/ \E t \in AuthTasks : GetLookup(t)
    \/ \E t \in AuthTasks, o \in FetchOutcomes : FetchJwks(t, o)
    \/ \E t \in AuthTasks : GetWriteLock(t)
    \/ \E t \in AuthTasks : GetInsert(t)
    \/ \E t \in AuthTasks : VtFind(t)
    \/ \E t \in AuthTasks : VtReturn(t)

\* the rate limiter as constructed by RateLimiter::new with the default
\* configuration scaled to the model's clock
RlQuiet ==
    /\ rl_enabled = TRUE
    /\ max_requests = 1
    /\ window_duration = 1
    /\ windows = << >>
    /\ rl_mutex = NoTask
    /\ clock = 0
    /\ rl_pc = [t \in RlTasks |-> "idle"]
    /\ rl_ip = [t \in RlTasks |-> "ipA"]
    /\ rl_now = [t \in RlTasks |-> 0]
    /\ rl_res = [t \in RlTasks |-> NoResult]
    /\ rl_seen = [t \in RlTasks |-> 0]
    /\ rl_log = [i \in Ips |-> << >>]
    /\ rl_resets = [i \in Ips |-> << >>]
    /\ rl_calls = 0

\* AuthConfig with every configured URL in use, no audience and no issuer;
\* no request goes through the middleware stack
CfgPlain ==
    /\ auth_stage = "jwks"
    /\ jwt_secret = None
    /\ rl_impl = "core"
    /\ p_budget = 0
    /\ auth_enabled = TRUE
    /\ audience = None
    /\ issuer = None
    /\ url_count = Len(jwks_urls)
    /\ validate_aud = TRUE

\* Ok(()) and the errors of validate_client_assertion
NoVcaResult == [kind |-> "none", detail |-> ""]
VcaOk == [kind |-> "Ok", detail |-> ""]
VcaErr(kind, detail) == [kind |-> kind, detail |-> detail]

\* validate_client_assertion after validate_token returned res (lines 378-391):
\* the error is propagated by `?`, then sub and, if present, iss are compared
\* with client_id
ClientAssertionIgnoringIss(res, client_id) ==
    IF res.kind # "Ok" THEN VcaErr(res.kind, res.detail)
    ELSE IF res.claims.sub # client_id
    THEN VcaErr("InvalidToken", "Client ID mismatch in sub claim")
    ELSE VcaOk
ClientAssertionResult(res, client_id) ==
    IF res.kind # "Ok" THEN VcaErr(res.kind, res.detail)
    ELSE IF res.claims.sub # client_id
    THEN VcaErr("InvalidToken", "Client ID mismatch in sub claim")
    ELSE IF res.claims.iss # None /\ res.claims.iss # client_id
    THEN VcaErr("InvalidToken", "Client ID mismatch in iss claim")
    ELSE VcaOk

\* a request as the stages see it: the Authorization header (absent, not a
\* Bearer header, or Bearer <token>) and the identity extract_client_ip derives
Request(auth, token, ip) == [auth |-> auth, token |-> token, ip |-> ip]
NoRequest == Request("absent", NoToken, "ipA")
RequestsWith(tokens) ==
    {Request("absent", NoToken, ip) : ip \in Ips}
    \cup {Request("basic", NoToken, ip) : ip \in Ips}
    \cup {Request("bearer", tok, ip) : tok \in tokens, ip \in Ips}

\* a response: its status and its Retry-After header
Response(status, retry_after) == [status |-> status, retry_after |-> retry_after]
NoResponse == Response("none", None)

\* the layers of add_middleware that are functions of this repository,
\* outermost first (middleware/mod.rs lines 33-51), then the routes
LayersSecurityAfterRateLimit ==
    <<"request_id", "metrics", "version", "rate_limit", "security_headers", "auth">>
Layers == <<"security_headers", "request_id", "metrics", "version", "rate_limit", "auth">>
PassThrough == {"security_headers", "request_id", "metrics", "version"}
NextLayer(stage) ==
    LET i == CHOOSE k \in 1..Len(Layers) : Layers[k] = stage
    IN IF i < Len(Layers) THEN Layers[i + 1] ELSE "business"

\* DecodingKey::from_secret(secret.as_bytes()) and Validation::default()
\* (middleware/auth.rs lines 85-86)
SecretKey(secret) == [issuer_url |-> secret, kid |-> NoKid]
ValidationDefault == ValidationNew("HS256")

\* where a request goes after the token-validation stage looked at the result
\* of the validation: next.run(req) in every case
RejectInvalid(res) == IF res.kind = "Ok" THEN "business" ELSE "responded"
StageAfterAuth(res) == "business"
\* req.extensions_mut().insert(token_data.claims) on Ok, nothing on Err
ClaimsAttached(res) == IF res.kind = "Ok" THEN res.claims ELSE NoClaims
AuthOutcome(res) == IF res.kind = "Ok" THEN "accepted" ELSE "rejected"

\* where a request goes after rate_limit_middleware matched the result of
\* check_rate_limit: next.run(req) on Ok, the 429 response on Err
AfterRateLimitFallThrough(res) == NextLayer("rate_limit")
AfterRateLimit(res) == IF res.kind = "Ok" THEN NextLayer("rate_limit") ELSE "responded"

\* a header value as text: the units are the text of the address 127.0.0.1
\* ("L"), the text of another address ("B"), text that is no address ("x"),
\* a blank and a comma; a header is absent or carries such a text
Chars == {"L", "B", "x", " ", ","}
TextsUpTo(n) == UNION {[1..k -> Chars] : k \in 0..n}
Hdr(text) == [present |-> TRUE, text |-> text]
NoHdr == [present |-> FALSE, text |-> << >>]

\* "127.0.0.1".parse().unwrap(): the model's ipA is the loopback address
Loopback == "ipA"

\* str::parse::<IpAddr>(): the address, or None for an Err
ParseIp(text) ==
    IF text = <<"L">> THEN Loopback
    ELSE IF text = <<"B">> THEN "ipB"
    ELSE None

\* forwarded_str.split(',').next(): the text before the first comma
FirstEntry(text) ==
    LET commas == {i \in 1..Len(text) : text[i] = ","}
    IN IF commas = {} THEN text
       ELSE SubSeq(text, 1, (CHOOSE i \in commas : \A j \in commas : i <= j) - 1)

\* str::trim(): leading and trailing blanks removed
RECURSIVE Trim(_)
Trim(text) ==
    IF text = << >> THEN text
    ELSE IF Head(text) = " " THEN Trim(Tail(text))
    ELSE IF text[Len(text)] = " " THEN Trim(SubSeq(text, 1, Len(text) - 1))
    ELSE text

\* extract_client_ip (middleware/rate_limit.rs lines 148-171): the first
\* entry of X-Forwarded-For, trimmed, if it parses; else X-Real-IP, untrimmed,
\* if it parses; else 127.0.0.1
ExtractClientIpRealFirst(xff, xri) ==
    IF xri.present /\ ParseIp(xri.text) # None THEN ParseIp(xri.text)
    ELSE IF xff.present /\ ParseIp(Trim(FirstEntry(xff.text))) # None
         THEN ParseIp(Trim(FirstEntry(xff.text)))
    ELSE Loopback
ExtractClientIp(xff, xri) ==
    IF xff.present /\ ParseIp(Trim(FirstEntry(xff.text))) # None
    THEN ParseIp(Trim(FirstEntry(xff.text)))
    ELSE IF xri.present /\ ParseIp(xri.text) # None THEN ParseIp(xri.text)
    ELSE Loopback

\* the forwarding headers of a request whose only one is X-Forwarded-For: ip
Forwarded(ip) ==
    [xff |-> Hdr(IF ip = Loopback THEN <<"L">> ELSE <<"B">>), xri |-> NoHdr]
NoForwarded == [xff |-> NoHdr, xri |-> NoHdr]

\* a request id: none, a client's value of visible ASCII, a client's value
\* with bytes outside visible ASCII, the empty string, or a generated UUID
Rid(kind, n) == [kind |-> kind, n |-> n]
NoRid == Rid("none", 0)
InboundIds == {NoRid, Rid("client", 1), Rid("opaque", 1)}

\* request_id_middleware lines 42-47: the inbound value through
\* to_str().unwrap_or_default() when the header is present, else a new UUID
RequestIdFor(inbound, serial) ==
    IF inbound = NoRid THEN Rid("uuid", serial)
    ELSE IF inbound.kind = "opaque" THEN Rid("empty", 0)
    ELSE inbound

\* the locals of the layers: request_id of request_id_middleware and the
\* matched result of check_rate_limit in rate_limit_middleware
NoLocals == [request_id |-> NoRid, rl |-> NoResult]

\* the headers the layers put on a response: X-Request-Id, X-RateLimit-Limit,
\* X-RateLimit-Remaining, X-RateLimit-Reset, and the security headers
NoHeaders ==
    [x_request_id |-> NoRid, rate_limit |-> FALSE, limit |-> 0, remaining |-> 0,
     reset |-> 0, security |-> {}]

\* the headers security_headers inserts into the response of next.run in
\* every build (middleware/security.rs lines 14-36; both texts of the
\* Content-Security-Policy are valid header values); a release build adds
\* Strict-Transport-Security (lines 39-44)
SecurityHeaderNames ==
    {"X-Content-Type-Options", "X-Frame-Options", "X-XSS-Protection",
     "Referrer-Policy", "Permissions-Policy", "Content-Security-Policy"}

\* X-RateLimit-Remaining of the Ok arm (middleware/rate_limit.rs lines 112-115)
RemainingBeforeIncrement(rl) == rl.remaining + 1
RemainingHeader(rl) == rl.remaining

\* reset_at.duration_since(Instant::now()).as_secs() (line 117)
SecondsUntil(reset_at, now) == IF reset_at > now THEN reset_at - now ELSE 0

\* the headers of a response after it travelled outwards through the layers
\* that ran: the Ok arm of rate_limit_middleware adds the rate headers,
\* request_id_middleware the request id, security_headers the security headers
ResponseHeaders(trace, loc, now) ==
    LET ran == {trace[i] : i \in 1..Len(trace)}
        allowed == "rate_limit" \in ran /\ loc.rl.kind = "Ok"
    IN [x_request_id |-> IF "request_id" \in ran THEN loc.request_id ELSE NoRid,
        rate_limit |-> allowed,
        limit |-> IF allowed THEN loc.rl.limit ELSE 0,
        remaining |-> IF allowed THEN RemainingHeader(loc.rl) ELSE 0,
        reset |-> IF allowed THEN SecondsUntil(loc.rl.reset_at, now) ELSE 0,
        security |-> IF "security_headers" \in ran THEN SecurityHeaderNames ELSE {}]

\* a u64 as its high and low 32-bit halves (value = hi * 2^32 + lo)
U64(hi, lo) == [hi |-> hi, lo |-> lo]
\* `config.max_requests as u32` (rate_limit.rs line 65): the cast keeps the
\* low 32 bits
AsU32(v) == v.lo

\* the result slot of the repository before any call
NoCall == [op |-> "none", id |-> 0, kind |-> "none", item |-> << >>, n |-> 0]

\* no request is in the middleware stack and no caller of validate_token is
\* in progress
StackIdle ==
    /\ data = << >>
    /\ id_next = 1
    /\ repo_last = NoCall
    /\ live = {}
    /\ dropped = {}
    /\ p_in = [t \in RlTasks |-> NoRid]
    /\ p_loc = [t \in RlTasks |-> NoLocals]
    /\ p_hdrs = [t \in RlTasks |-> NoHeaders]
    /\ uuid_next = 1
    /\ p_fwd = [t \in RlTasks |-> NoForwarded]
    /\ p_pc = [t \in RlTasks |-> "idle"]
    /\ p_req = [t \in RlTasks |-> NoRequest]
    /\ p_claims = [t \in RlTasks |-> NoClaims]
    /\ p_auth = [t \in RlTasks |-> "none"]
    /\ p_trace = [t \in RlTasks |-> << >>]
    /\ p_resp = [t \in RlTasks |-> NoResponse]
    /\ vca_pc = [t \in AuthTasks |-> "idle"]
    /\ vca_cid = [t \in AuthTasks |-> None]
    /\ vca_res = [t \in AuthTasks |-> NoVcaResult]

\* as StackIdle, with the limiter built from a configuration whose
\* max_requests fits 32 bits
CallersIdle ==
    /\ StackIdle
    /\ cfg_max_requests = U64(0, max_requests)

\* validate_client_assertion(assertion, client_id, validator) is called
VcaCall(t, client_id) ==
    /\ vca_pc[t] = "idle"
    /\ a_pc[t] = "idle"
    /\ t \in active
    /\ a_budget > 0
    /\ vca_pc' = [vca_pc EXCEPT ![t] = "validate"]
    /\ vca_cid' = [vca_cid EXCEPT ![t] = client_id]
    /\ UNCHANGED <<rl_vars, auth_vars, cfg_vars, conv_vars, repo_vars, drop_vars, stage_vars, pl_vars, out_vars, vca_res>>

\* validator.validate_token(assertion).await (line 378): the call
VcaValidate(t, assertion) ==
    /\ vca_pc[t] = "validate"
    /\ VtCall(t, assertion)

\* validate_token returned: the `?` and the comparisons (lines 378-391)
VcaMatch(t) ==
    /\ vca_pc[t] = "validate"
    /\ a_pc[t] = "done"
    /\ vca_res' = [vca_res EXCEPT ![t] = ClientAssertionResult(a_res[t], vca_cid[t])]
    /\ vca_pc' = [vca_pc EXCEPT ![t] = "returned"]
    /\ UNCHANGED <<rl_vars, auth_vars, cfg_vars, conv_vars, repo_vars, drop_vars, stage_vars, pl_vars, out_vars, vca_cid>>

\* the frame of validate_token is left once its result was taken
VcaLeave(t) ==
    /\ vca_pc[t] = "returned"
    /\ VtReturn(t)

\* the caller of validate_client_assertion consumes the result
VcaReturn(t) ==
    /\ vca_pc[t] = "returned"
    /\ a_pc[t] = "idle"
    /\ vca_pc' = [vca_pc EXCEPT ![t] = "idle"]
    /\ vca_cid' = [vca_cid EXCEPT ![t] = None]
    /\ vca_res' = [vca_res EXCEPT ![t] = NoVcaResult]
    /\ UNCHANGED <<rl_vars, auth_vars, cfg_vars, conv_vars, repo_vars, drop_vars, stage_vars, pl_vars, out_vars>>

\* the rate limiter under concurrent requests
Init == RlInit /\ AuthInit /\ CfgPlain /\ CallersIdle /\ active = {} /\ a_budget = 0
Next == RlNext
Spec == Init /\ [][Next]_vars

\* the JWKS cache and the token validator under concurrent requests
InitAuth == RlQuiet /\ AuthInit /\ CfgPlain /\ CallersIdle /\ active = {"t1", "t2"} /\ a_budget = MaxAuthCalls
SpecAuth == InitAuth /\ [][AuthNext]_vars

\* three requests that arrive together at a cold cache, each making one call;
\* the issuers and the clock stand still meanwhile
InitHerd == RlQuiet /\ AuthInit /\ CfgPlain /\ CallersIdle /\ active = Tasks /\ a_budget = Cardinality(Tasks)
HerdNext ==
    \/ \E t \in AuthTasks, tok \in Tokens : VtCall(t, tok)
    \/ \E t \in AuthTasks : GetReadLock(t)
    \/ \E t \in AuthTasks : GetLookup(t)
    \/ \E t \in AuthTasks, o \in FetchOutcomes : FetchJwks(t, o)
    \/ \E t \in AuthTasks : GetWriteLock(t)
    \/ \E t \in AuthTasks : GetInsert(t)
    \/ \E t \in AuthTasks : VtFind(t)
    \/ \E t \in AuthTasks : VtReturn(t)
SpecHerd == InitHerd /\ [][HerdNext]_vars

\* the tokens presented while the loop over the issuers is exercised: those
\* above, and tokens the second issuer signed with its K1 and with its K2
LookupTokens ==
    Tokens \cup
    { Token("K1", "RS256", KeyOf(jwks_urls[2], "K1"), FarExp, None, None, "user-42"),
      Token("K2", "ES256", KeyOf(jwks_urls[2], "K2"), FarExp, None, None, "client-1") }

\* validate_token called by one request after the other, with none, one or
\* both of the URLs configured, while issuers rotate and fetches fail
InitVt ==
    /\ RlQuiet /\ AuthInit /\ CallersIdle
    /\ auth_stage = "jwks" /\ jwt_secret = None /\ rl_impl = "core" /\ p_budget = 0
    /\ auth_enabled = TRUE
    /\ audience = None
    /\ issuer = None
    /\ url_count \in 0..Len(jwks_urls)
    /\ validate_aud = TRUE
    /\ active = {"t1"}
    /\ a_budget = MaxAuthCalls
VtNext ==
    \/ SysTick
    \/ \E u \in Urls, ks \in KeySets : Rotate(u, ks)
    \/ \E t \in AuthTasks, tok \in LookupTokens : VtCall(t, tok)
    \/ \E t \in AuthTasks : GetReadLock(t)
    \/ \E t \in AuthTasks : GetLookup(t)
    \/ \E t \in AuthTasks, o \in FetchOutcomes : FetchJwks(t, o)
    \/ \E t \in AuthTasks : GetWriteLock(t)
    \/ \E t \in AuthTasks : GetInsert(t)
    \/ \E t \in AuthTasks : VtFind(t)
    \/ \E t \in AuthTasks : VtReturn(t)
SpecVt == InitVt /\ [][VtNext]_vars

\* every token with a kid: its header algorithm, the issuer whose key under
\* that kid signed it (or nobody's), its expiry and its aud, iss and sub
TokenUniverse ==
    { Token(kid, alg, signer, exp, aud, iss, sub) :
        kid \in Kids, alg \in Algs,
        signer \in {KeyOf(u, k) : u \in Urls, k \in Kids} \cup {NoKey},
        exp \in {0, FarExp}, aud \in {None, "audA", "audB"},
        iss \in {None, "client-1", "issB"}, sub \in Subjects }
DecodeTokens == {tok \in TokenUniverse : tok.signer = NoKey \/ tok.signer.kid = tok.kid}

\* validate_token called once, at any time, under any configuration of
\* audience and issuer, while the second issuer publishes K1 or K2 and fetches
\* may fail
InitDecode ==
    /\ RlQuiet /\ AuthIdle /\ CallersIdle
    /\ sysclock \in 0..MaxSysTime
    /\ \E ks \in KeySets :
          served = [u \in Urls |-> IF u = jwks_urls[1] THEN InitialKeys(u) ELSE ks]
    /\ published = [u \in Urls |-> {served[u]}]
    /\ auth_stage = "jwks" /\ jwt_secret = None /\ rl_impl = "core" /\ p_budget = 0
    /\ auth_enabled = TRUE
    /\ audience \in {None, "audA"}
    /\ issuer \in {None, "client-1"}
    /\ url_count = Len(jwks_urls)
    /\ validate_aud \in BOOLEAN
    /\ active = {"t1"}
    /\ a_budget = 1
DecodeNext ==
    \/ \E t \in active : a_budget > 0 /\ \E tok \in DecodeTokens : VtCall(t, tok)
    \/ \E t \in AuthTasks : GetReadLock(t)
    \/ \E t \in AuthTasks : GetLookup(t)
    \/ \E t \in AuthTasks, o \in FetchOutcomes : FetchJwks(t, o)
    \/ \E t \in AuthTasks : GetWriteLock(t)
    \/ \E t \in AuthTasks : GetInsert(t)
    \/ \E t \in AuthTasks : VtFind(t)
    \/ \E t \in AuthTasks : VtReturn(t)
SpecDecode == InitDecode /\ [][DecodeNext]_vars

\* the assertions presented to validate_client_assertion: tokens with kid K1
\* and RS256 that the first issuer signed or nobody did, with any sub and iss,
\* and a token that decode_header rejects
AssertionTokens ==
    {tok \in DecodeTokens : /\ tok.kid = "K1" /\ tok.alg = "RS256"
                            /\ tok.signer \in {KeyOf(jwks_urls[1], "K1"), NoKey}
                            /\ tok.aud = None /\ tok.exp = FarExp}
    \cup {Malformed}

\* validate_client_assertion called by one request after the other, with or
\* without a configured issuer, while fetches may fail
InitAssert ==
    /\ RlQuiet /\ AuthInit /\ CallersIdle
    /\ auth_stage = "jwks" /\ jwt_secret = None /\ rl_impl = "core" /\ p_budget = 0
    /\ auth_enabled = TRUE
    /\ audience = None
    /\ issuer \in {None, "client-1"}
    /\ url_count = Len(jwks_urls)
    /\ validate_aud = TRUE
    /\ active = {"t1"}
    /\ a_budget = MaxAuthCalls
AssertNext ==
    \/ \E t \in AuthTasks, cid \in Subjects : VcaCall(t, cid)
    \/ \E t \in AuthTasks, tok \in AssertionTokens : VcaValidate(t, tok)
    \/ \E t \in AuthTasks : GetReadLock(t)
    \/ \E t \in AuthTasks : GetLookup(t)
    \/ \E t \in AuthTasks, o \in FetchOutcomes : FetchJwks(t, o)
    \/ \E t \in AuthTasks : GetWriteLock(t)
    \/ \E t \in AuthTasks : GetInsert(t)
    \/ \E t \in AuthTasks : VtFind(t)
    \/ \E t \in AuthTasks : VcaMatch(t)
    \/ \E t \in AuthTasks : VcaLeave(t)
    \/ \E t \in AuthTasks : VcaReturn(t)
SpecAssert == InitAssert /\ [][AssertNext]_vars

(* ---------------------- the middleware stack -------------------------- *)

\* the tokens requests carry: one the first issuer signed with its K1, one
\* signed with the shared secret, one signed with another secret, one that
\* cannot be parsed
StageTokens ==
    { Token("K1", "RS256", KeyOf(jwks_urls[1], "K1"), FarExp, None, None, "user-42"),
      Token(NoKid, "HS256", SecretKey("s3cret"), FarExp, None, None, "user-42"),
      Token(NoKid, "HS256", SecretKey("guess"), FarExp, None, None, "client-1"),
      Malformed }

\* a request arrives at the token-validation stage
StageArrive(t, req) ==
    /\ p_pc[t] = "idle"
    /\ p_budget > 0
    /\ p_budget' = p_budget - 1
    /\ p_pc' = [p_pc EXCEPT ![t] = "auth"]
    /\ p_req' = [p_req EXCEPT ![t] = req]
    /\ p_claims' = [p_claims EXCEPT ![t] = NoClaims]
    /\ p_auth' = [p_auth EXCEPT ![t] = "none"]
    /\ p_trace' = [p_trace EXCEPT ![t] = << >>]
    /\ p_resp' = [p_resp EXCEPT ![t] = NoResponse]
    /\ UNCHANGED <<rl_vars, auth_vars, cfg_vars, conv_vars, repo_vars, drop_vars, vca_vars, stage_vars, out_vars>>

\* if !config.enabled { return next.run(req).await; } (middleware/auth.rs
\* lines 75-77, auth.rs lines 343-345)
SkipAuthNever == FALSE
SkipAuth == ~auth_enabled

\* middleware::auth::auth_middleware (middleware/auth.rs lines 73-98): the
\* token is decoded with the shared secret, if one is configured; the claims
\* are attached when decode succeeds; next.run(req) in every case
AmSecret(t) ==
    /\ p_pc[t] = "auth"
    /\ auth_stage = "secret"
    /\ rl_pc[t] = "idle"
    /\ LET req == p_req[t]
           res == Decode(req.token, SecretKey(jwt_secret), ValidationDefault, sysclock)
           outcome == IF SkipAuth THEN "disabled"
                      ELSE IF req.auth = "absent" THEN "no_header"
                      ELSE IF req.auth # "bearer" THEN "not_bearer"
                      ELSE IF jwt_secret = None THEN "no_secret"
                      ELSE AuthOutcome(res)
       IN /\ p_auth' = [p_auth EXCEPT ![t] = outcome]
          /\ p_claims' = [p_claims EXCEPT ![t] =
                             IF outcome \in {"accepted", "rejected"}
                             THEN ClaimsAttached(res) ELSE NoClaims]
          /\ p_pc' = [p_pc EXCEPT ![t] =
                         IF outcome \in {"accepted", "rejected"}
                         THEN StageAfterAuth(res) ELSE "business"]
    /\ p_trace' = [p_trace EXCEPT ![t] = Append(@, "auth")]
    /\ UNCHANGED <<rl_vars, auth_vars, cfg_vars, conv_vars, repo_vars, drop_vars, vca_vars, stage_vars, out_vars>>
    /\ UNCHANGED <<p_req, p_resp, p_budget>>

\* auth::auth_middleware (auth.rs lines 337-354): disabled, no Authorization
\* header, or a header without the Bearer prefix: next.run(req); otherwise
\* validate_token is called
AmEnter(t) ==
    /\ p_pc[t] = "auth"
    /\ auth_stage = "jwks"
    /\ rl_pc[t] = "idle"
    /\ LET req == p_req[t]
           outcome == IF SkipAuth THEN "disabled"
                      ELSE IF req.auth = "absent" THEN "no_header"
                      ELSE IF req.auth # "bearer" THEN "not_bearer"
                      ELSE "none"
       IN /\ p_auth' = [p_auth EXCEPT ![t] = outcome]
          /\ p_pc' = [p_pc EXCEPT ![t] = IF outcome = "none" THEN "validate" ELSE "business"]
          /\ p_trace' = [p_trace EXCEPT ![t] =
                            IF outcome = "none" THEN @ ELSE Append(@, "auth")]
    /\ UNCHANGED <<rl_vars, auth_vars, cfg_vars, conv_vars, repo_vars, drop_vars, vca_vars, stage_vars, out_vars>>
    /\ UNCHANGED <<p_req, p_claims, p_resp, p_budget>>

\* validator.validate_token(token).await (line 356)
AmValidate(t) ==
    /\ p_pc[t] = "validate"
    /\ VtCall(t, p_req[t].token)

\* the match on the result (lines 356-368): the claims are inserted on Ok,
\* the error is dropped on Err; next.run(req) in both arms
AmMatch(t) ==
    /\ p_pc[t] = "validate"
    /\ a_pc[t] = "done"
    /\ p_auth' = [p_auth EXCEPT ![t] = AuthOutcome(a_res[t])]
    /\ p_claims' = [p_claims EXCEPT ![t] = ClaimsAttached(a_res[t])]
    /\ p_pc' = [p_pc EXCEPT ![t] = StageAfterAuth(a_res[t])]
    /\ p_trace' = [p_trace EXCEPT ![t] = Append(@, "auth")]
    /\ UNCHANGED <<rl_vars, auth_vars, cfg_vars, conv_vars, repo_vars, drop_vars, vca_vars, stage_vars, out_vars>>
    /\ UNCHANGED <<p_req, p_resp, p_budget>>

\* the result of validate_token goes out of scope
AmLeave(t) ==
    /\ p_pc[t] \in {"business", "responded"}
    /\ VtReturn(t)

\* next.run(req) of the innermost layer: the routes; a handler sees the
\* request extensions and answers
Business(t) ==
    /\ p_pc[t] = "business"
    /\ a_pc[t] = "idle"
    /\ p_trace' = [p_trace EXCEPT ![t] = Append(@, "business")]
    /\ p_resp' = [p_resp EXCEPT ![t] = Response("200", None)]
    /\ p_pc' = [p_pc EXCEPT ![t] = "responded"]
    /\ UNCHANGED <<rl_vars, auth_vars, cfg_vars, conv_vars, repo_vars, drop_vars, vca_vars, stage_vars, out_vars>>
    /\ UNCHANGED <<p_req, p_claims, p_auth, p_budget>>

\* the response has left; the task takes the next request
PlDone(t) ==
    /\ p_pc[t] = "responded"
    /\ a_pc[t] = "idle"
    /\ rl_pc[t] = "idle"
    /\ p_pc' = [p_pc EXCEPT ![t] = "idle"]
    /\ p_req' = [p_req EXCEPT ![t] = NoRequest]
    /\ p_claims' = [p_claims EXCEPT ![t] = NoClaims]
    /\ p_auth' = [p_auth EXCEPT ![t] = "none"]
    /\ p_trace' = [p_trace EXCEPT ![t] = << >>]
    /\ p_resp' = [p_resp EXCEPT ![t] = NoResponse]
    /\ UNCHANGED <<rl_vars, auth_vars, cfg_vars, conv_vars, repo_vars, drop_vars, vca_vars, stage_vars, out_vars, p_budget>>

\* the token-validation stage on its own, in either of its two
\* implementations, enabled or not, with or without a shared secret, serving
\* one request after the other while issuers rotate and fetches fail
InitStage ==
    /\ RlQuiet /\ AuthInit /\ CallersIdle
    /\ auth_stage \in {"jwks", "secret"}
    /\ jwt_secret \in {None, "s3cret"}
    /\ rl_impl = "core"
    /\ p_budget = MaxAuthCalls
    /\ auth_enabled \in BOOLEAN
    /\ audience = None
    /\ issuer = None
    /\ url_count = Len(jwks_urls)
    /\ validate_aud = TRUE
    /\ active = {"t1"}
    /\ a_budget = MaxAuthCalls
StageNext ==
    \/ SysTick
    \/ \E u \in Urls, ks \in KeySets : Rotate(u, ks)
    \/ \E t \in active : p_budget > 0 /\ \E req \in RequestsWith(StageTokens) : StageArrive(t, req)
    \/ \E t \in active : AmSecret(t)
    \/ \E t \in active : AmEnter(t)
    \/ \E t \in active : AmValidate(t)
    \/ \E t \in AuthTasks : GetReadLock(t)
    \/ \E t \in AuthTasks : GetLookup(t)
    \/ \E t \in AuthTasks, o \in FetchOutcomes : FetchJwks(t, o)
    \/ \E t \in AuthTasks : GetWriteLock(t)
    \/ \E t \in AuthTasks : GetInsert(t)
    \/ \E t \in AuthTasks : VtFind(t)
    \/ \E t \in active : AmMatch(t)
    \/ \E t \in active : AmLeave(t)
    \/ \E t \in active : Business(t)
    \/ \E t \in active : PlDone(t)
SpecStage == InitStage /\ [][StageNext]_vars

\* a request enters the outermost layer of add_middleware
PlArrive(t, req) ==
    /\ p_pc[t] = "idle"
    /\ p_budget > 0
    /\ p_budget' = p_budget - 1
    /\ p_pc' = [p_pc EXCEPT ![t] = Layers[1]]
    /\ p_req' = [p_req EXCEPT ![t] = req]
    /\ p_claims' = [p_claims EXCEPT ![t] = NoClaims]
    /\ p_auth' = [p_auth EXCEPT ![t] = "none"]
    /\ p_trace' = [p_trace EXCEPT ![t] = << >>]
    /\ p_resp' = [p_resp EXCEPT ![t] = NoResponse]
    /\ \E rid \in InboundIds : p_in' = [p_in EXCEPT ![t] = rid]
    /\ p_loc' = [p_loc EXCEPT ![t] = NoLocals]
    /\ p_hdrs' = [p_hdrs EXCEPT ![t] = NoHeaders]
    /\ p_fwd' = [p_fwd EXCEPT ![t] = Forwarded(req.ip)]
    /\ UNCHANGED <<rl_vars, auth_vars, cfg_vars, conv_vars, repo_vars, drop_vars, vca_vars, stage_vars, uuid_next>>

\* security_headers, request_id_middleware, metrics_middleware and
\* version_middleware call next.run(req) unconditionally
PlPass(t) ==
    /\ p_pc[t] \in PassThrough
    /\ p_trace' = [p_trace EXCEPT ![t] = Append(@, p_pc[t])]
    /\ p_pc' = [p_pc EXCEPT ![t] = NextLayer(p_pc[t])]
    /\ IF p_pc[t] = "request_id"
       THEN /\ p_loc' = [p_loc EXCEPT ![t].request_id = RequestIdFor(p_in[t], uuid_next)]
            /\ uuid_next' = IF p_in[t] = NoRid THEN uuid_next + 1 ELSE uuid_next
       ELSE UNCHANGED <<p_loc, uuid_next>>
    /\ UNCHANGED <<rl_vars, auth_vars, cfg_vars, conv_vars, repo_vars, drop_vars, vca_vars, stage_vars, p_in, p_hdrs, p_fwd>>
    /\ UNCHANGED <<p_req, p_claims, p_auth, p_resp, p_budget>>

\* rate_limit_middleware: limiter.check_rate_limit(ip).await for the identity
\* of the request (middleware/rate_limit.rs lines 103-106)
PlRateCall(t) ==
    /\ p_pc[t] = "rate_limit"
    /\ RlCall(t, ExtractClientIp(p_fwd[t].xff, p_fwd[t].xri))

\* the match on the result (lines 106-144): Ok runs the next layer,
\* Err(TOO_MANY_REQUESTS) answers 429 with Retry-After: 60
PlRateMatch(t) ==
    /\ p_pc[t] = "rate_limit"
    /\ rl_pc[t] = "done"
    /\ p_trace' = [p_trace EXCEPT ![t] = Append(@, "rate_limit")]
    /\ p_pc' = [p_pc EXCEPT ![t] = AfterRateLimit(rl_res[t])]
    /\ p_resp' = [p_resp EXCEPT ![t] =
                     IF rl_res[t].kind = "Ok" THEN @ ELSE Response("429", "60")]
    /\ p_loc' = [p_loc EXCEPT ![t].rl = rl_res[t]]
    /\ UNCHANGED <<rl_vars, auth_vars, cfg_vars, conv_vars, repo_vars, drop_vars, vca_vars, stage_vars, p_in, p_hdrs, uuid_next, p_fwd>>
    /\ UNCHANGED <<p_req, p_claims, p_auth, p_budget>>

\* the result of check_rate_limit has been taken apart
PlRateLeave(t) ==
    /\ p_pc[t] # "rate_limit"
    /\ RlReturn(t)

\* a handler answers with an error response
BusinessError(t) ==
    /\ p_pc[t] = "business"
    /\ a_pc[t] = "idle"
    /\ p_trace' = [p_trace EXCEPT ![t] = Append(@, "business")]
    /\ p_resp' = [p_resp EXCEPT ![t] = Response("500", None)]
    /\ p_pc' = [p_pc EXCEPT ![t] = "responded"]
    /\ UNCHANGED <<rl_vars, auth_vars, cfg_vars, conv_vars, repo_vars, drop_vars, vca_vars, stage_vars, out_vars>>
    /\ UNCHANGED <<p_req, p_claims, p_auth, p_budget>>

\* the response returns through the layers that ran, innermost first, each
\* adding its headers after its next.run(req).await
PlUnwind(t) ==
    /\ p_pc[t] = "responded"
    /\ rl_pc[t] = "idle"
    /\ p_hdrs' = [p_hdrs EXCEPT ![t] = ResponseHeaders(p_trace[t], p_loc[t], clock)]
    /\ p_pc' = [p_pc EXCEPT ![t] = "sent"]
    /\ UNCHANGED <<rl_vars, auth_vars, cfg_vars, conv_vars, repo_vars, drop_vars, vca_vars, stage_vars>>
    /\ UNCHANGED <<p_req, p_claims, p_auth, p_trace, p_resp, p_budget, p_in, p_loc, uuid_next, p_fwd>>

\* the response has left the stack; the task takes the next request
PlSent(t) ==
    /\ p_pc[t] = "sent"
    /\ p_pc' = [p_pc EXCEPT ![t] = "idle"]
    /\ p_req' = [p_req EXCEPT ![t] = NoRequest]
    /\ p_claims' = [p_claims EXCEPT ![t] = NoClaims]
    /\ p_auth' = [p_auth EXCEPT ![t] = "none"]
    /\ p_trace' = [p_trace EXCEPT ![t] = << >>]
    /\ p_resp' = [p_resp EXCEPT ![t] = NoResponse]
    /\ p_in' = [p_in EXCEPT ![t] = NoRid]
    /\ p_loc' = [p_loc EXCEPT ![t] = NoLocals]
    /\ p_hdrs' = [p_hdrs EXCEPT ![t] = NoHeaders]
    /\ p_fwd' = [p_fwd EXCEPT ![t] = NoForwarded]
    /\ UNCHANGED <<rl_vars, auth_vars, cfg_vars, conv_vars, repo_vars, drop_vars, vca_vars, stage_vars, p_budget, uuid_next>>

\* the application as add_middleware builds it: the token-validation stage is
\* middleware::auth::auth_middleware (middleware/mod.rs lines 25 and 48-51),
\* enabled or not, with or without JWT_SECRET, under any rate-limit
\* configuration of its fixed window (Duration::from_secs(60), the model's
\* longest window); requests arrive one after the other
InitPipe ==
    /\ RlInit /\ AuthInit /\ CallersIdle
    /\ window_duration = MaxWindow
    /\ auth_stage = "secret"
    /\ jwt_secret \in {None, "s3cret"}
    /\ rl_impl = "middleware"
    /\ p_budget = MaxRequests
    /\ auth_enabled \in BOOLEAN
    /\ audience = None
    /\ issuer = None
    /\ url_count = Len(jwks_urls)
    /\ validate_aud = TRUE
    /\ active = {"t1"}
    /\ a_budget = 0
PipeNext ==
    \/ Tick
    \/ \E t \in active : p_budget > 0 /\ \E req \in RequestsWith(StageTokens) : PlArrive(t, req)
    \/ \E t \in active : PlPass(t)
    \/ \E t \in active : PlRateCall(t)
    \/ \E t \in RlTasks : RlLock(t)
    \/ \E t \in RlTasks : RlEntry(t)
    \/ \E t \in RlTasks : RlTestExpired(t)
    \/ \E t \in RlTasks : RlReset(t)
    \/ \E t \in RlTasks : RlTestLimit(t)
    \/ \E t \in RlTasks : RlIncrement(t)
    \/ \E t \in active : PlRateMatch(t)
    \/ \E t \in active : PlRateLeave(t)
    \/ \E t \in active : AmSecret(t)
    \/ \E t \in active : Business(t)
    \/ \E t \in active : BusinessError(t)
    \/ \E t \in active : PlUnwind(t)
    \/ \E t \in active : PlSent(t)
SpecPipe == InitPipe /\ [][PipeNext]_vars

\* a request with any X-Forwarded-For and X-Real-IP headers arrives at
\* rate_limit_middleware
IdArrive(t, xff, xri) ==
    /\ p_pc[t] = "idle"
    /\ p_budget > 0
    /\ p_budget' = p_budget - 1
    /\ p_pc' = [p_pc EXCEPT ![t] = "rate_limit"]
    /\ p_fwd' = [p_fwd EXCEPT ![t] = [xff |-> xff, xri |-> xri]]
    /\ p_trace' = [p_trace EXCEPT ![t] = SubSeq(Layers, 1, 4)]
    /\ p_resp' = [p_resp EXCEPT ![t] = NoResponse]
    /\ p_loc' = [p_loc EXCEPT ![t] = NoLocals]
    /\ UNCHANGED <<rl_vars, auth_vars, cfg_vars, conv_vars, repo_vars, drop_vars, vca_vars, stage_vars>>
    /\ UNCHANGED <<p_req, p_claims, p_auth, p_in, p_hdrs, uuid_next>>

\* the request leaves rate_limit_middleware, to the next layer or answered
IdDone(t) ==
    /\ p_pc[t] \in {NextLayer("rate_limit"), "responded"}
    /\ rl_pc[t] = "idle"
    /\ p_pc' = [p_pc EXCEPT ![t] = "idle"]
    /\ p_fwd' = [p_fwd EXCEPT ![t] = NoForwarded]
    /\ p_trace' = [p_trace EXCEPT ![t] = << >>]
    /\ p_resp' = [p_resp EXCEPT ![t] = NoResponse]
    /\ p_loc' = [p_loc EXCEPT ![t] = NoLocals]
    /\ UNCHANGED <<rl_vars, auth_vars, cfg_vars, conv_vars, repo_vars, drop_vars, vca_vars, stage_vars>>
    /\ UNCHANGED <<p_req, p_claims, p_auth, p_in, p_hdrs, uuid_next, p_budget>>

\* rate_limit_middleware of the wired limiter serving requests with every
\* combination of forwarding headers, one after the other, within one window
InitIdent ==
    /\ RlQuiet /\ AuthInit /\ CallersIdle
    /\ auth_stage = "secret" /\ jwt_secret = None /\ rl_impl = "middleware"
    /\ p_budget = MaxRequests
    /\ auth_enabled = FALSE
    /\ audience = None
    /\ issuer = None
    /\ url_count = Len(jwks_urls)
    /\ validate_aud = TRUE
    /\ active = {"t1"}
    /\ a_budget = 0
IdentNext ==
    \/ \E t \in active : p_budget > 0 /\ p_pc[t] = "idle" /\
          \E xff \in {NoHdr} \cup {Hdr(x) : x \in TextsUpTo(MaxHeaderLen)},
             xri \in {NoHdr} \cup {Hdr(x) : x \in TextsUpTo(MaxHeaderLen - 1)} :
                IdArrive(t, xff, xri)
    \/ \E t \in active : PlRateCall(t)
    \/ \E t \in RlTasks : RlLock(t)
    \/ \E t \in RlTasks : RlEntry(t)
    \/ \E t \in RlTasks : RlTestExpired(t)
    \/ \E t \in RlTasks : RlTestLimit(t)
    \/ \E t \in RlTasks : RlIncrement(t)
    \/ \E t \in active : PlRateMatch(t)
    \/ \E t \in active : PlRateLeave(t)
    \/ \E t \in active : IdDone(t)
SpecIdent == InitIdent /\ [][IdentNext]_vars

\* both implementations of the limiter, enabled or disabled, under every
\* configuration, called by concurrent requests
InitLimiters ==
    /\ RlInit /\ AuthInit /\ CallersIdle
    /\ auth_stage = "jwks" /\ jwt_secret = None /\ p_budget = 0
    /\ rl_impl \in {"core", "middleware"}
    /\ auth_enabled = TRUE
    /\ audience = None
    /\ issuer = None
    /\ url_count = Len(jwks_urls)
    /\ validate_aud = TRUE
    /\ active = {}
    /\ a_budget = 0
SpecLimiters == InitLimiters /\ [][RlNext]_vars

(* ============ cancellation of a request (its future dropped) ============ *)

\* where the future of request t stands: inside check_rate_limit, at the
\* match on its result, inside the validate_token the next stage awaits, or in
\* the stages after it (next.run(req).await, rate_limit.rs line 134 and
\* auth.rs line 368)
At(t) ==
    IF rl_pc[t] # "done" THEN rl_pc[t]
    ELSE IF a_pc[t] = "idle" THEN "rate_limit"
    ELSE IF a_pc[t] = "done" THEN "downstream"
    ELSE a_pc[t]

\* the awaits of a request: windows.lock() (rate_limit.rs line 98),
\* jwks_cache.read() (auth.rs line 150), fetch_jwks (line 161),
\* jwks_cache.write() (line 165) and next.run
SuspensionPointsInsideGuard ==
    {"lock", "read_lock", "fetching", "write_lock", "downstream"} \cup
    {"entry", "expiry", "reset", "limit", "incr"}
SuspensionPoints == {"lock", "read_lock", "fetching", "write_lock", "downstream"}

\* the request enters the rate-limit stage
CnCall(t, ip) ==
    /\ a_pc[t] = "idle"
    /\ RlCall(t, ip)

\* an Allowed request goes on to the token-validation stage
CnValidate(t, tok) ==
    /\ rl_pc[t] = "done"
    /\ rl_res[t].kind = "Ok"
    /\ VtCall(t, tok)

\* the rate-limit stage returns its response: the 429 at once, otherwise the
\* one the stages after it produced
CnUnwind(t) ==
    /\ a_pc[t] = "done" \/ (rl_res[t] = RlErr /\ a_pc[t] = "idle")
    /\ RlReturn(t)

\* the response has left the stack
CnRespond(t) ==
    /\ rl_pc[t] = "idle"
    /\ VtReturn(t)

\* the server drops the future of request t at an await: its locals are
\* dropped, a guard among them is released, and no code of the request runs
\* any more
Cancel(t) ==
    /\ At(t) \in SuspensionPoints
    /\ dropped' = dropped \cup {At(t)}
    /\ rl_mutex' = IF rl_mutex = t THEN NoTask ELSE rl_mutex
    /\ readers' = readers \ {t}
    /\ writer' = IF writer = t THEN NoTask ELSE writer
    /\ rl_pc' = [rl_pc EXCEPT ![t] = "idle"]
    /\ rl_res' = [rl_res EXCEPT ![t] = NoResult]
    /\ rl_now' = [rl_now EXCEPT ![t] = 0]
    /\ rl_seen' = [rl_seen EXCEPT ![t] = 0]
    /\ rl_ip' = [rl_ip EXCEPT ![t] = "ipA"]
    /\ a_pc' = [a_pc EXCEPT ![t] = "idle"]
    /\ a_res' = [a_res EXCEPT ![t] = NoAuthResult]
    /\ a_tok' = [a_tok EXCEPT ![t] = NoToken]
    /\ a_idx' = [a_idx EXCEPT ![t] = 0]
    /\ a_stale' = [a_stale EXCEPT ![t] = {}]
    /\ a_failed' = [a_failed EXCEPT ![t] = {}]
    /\ a_miss' = [a_miss EXCEPT ![t] = {}]
    /\ a_match' = [a_match EXCEPT ![t] = "none"]
    /\ UNCHANGED <<rl_enabled, max_requests, window_duration, windows, clock,
                   rl_log, rl_resets, rl_calls>>
    /\ UNCHANGED <<sysclock, served, jwks_cache, a_jwks, a_get, a_seen, a_issued,
                   published, last_fetch, last_locked, a_budget, active>>
    /\ UNCHANGED <<cfg_vars, conv_vars, repo_vars, vca_vars, stage_vars, pl_vars, out_vars>>

\* the token a request presents: signed by the first issuer with its K1
CancelTokens ==
    { Token("K1", "RS256", KeyOf(jwks_urls[1], "K1"), FarExp, None, None, "user-42") }

\* two concurrent requests of one client pass the rate limiter (one request
\* per window) and the JWKS validator with one issuer configured, and the
\* server may drop either of them at any await
InitCancel ==
    /\ RlInit /\ AuthInit /\ CallersIdle
    /\ rl_enabled = TRUE
    /\ max_requests = 1
    /\ window_duration = 1
    /\ auth_stage = "jwks" /\ jwt_secret = None /\ rl_impl = "core" /\ p_budget = 0
    /\ auth_enabled = TRUE
    /\ audience = None
    /\ issuer = None
    /\ url_count = 1
    /\ validate_aud = TRUE
    /\ active = RlTasks
    /\ a_budget = MaxAuthCalls
CancelNext ==
    \/ Tick
    \/ SysTick
    \/ \E t \in RlTasks : CnCall(t, Loopback)
    \/ \E t \in RlTasks : RlLock(t)
    \/ \E t \in RlTasks : RlEntry(t)
    \/ \E t \in RlTasks : RlTestExpired(t)
    \/ \E t \in RlTasks : RlReset(t)
    \/ \E t \in RlTasks : RlTestLimit(t)
    \/ \E t \in RlTasks : RlIncrement(t)
    \/ \E t \in RlTasks, tok \in CancelTokens : CnValidate(t, tok)
    \/ \E t \in RlTasks : GetReadLock(t)
    \/ \E t \in RlTasks : GetLookup(t)
    \/ \E t \in RlTasks, o \in FetchOutcomes : FetchJwks(t, o)
    \/ \E t \in RlTasks : GetWriteLock(t)
    \/ \E t \in RlTasks : GetInsert(t)
    \/ \E t \in RlTasks : VtFind(t)
    \/ \E t \in RlTasks : CnUnwind(t)
    \/ \E t \in RlTasks : CnRespond(t)
    \/ \E t \in RlTasks : Cancel(t)
SpecCancel == InitCancel /\ [][CancelNext]_vars

(* ============ progress of the calls under fair scheduling ============ *)

\* a step of request t that needs no lock to be granted: the code between
\* two awaits, and the completion of the fetch, which reqwest's timeout of
\* Duration::from_secs(10) (auth.rs line 128) bounds
LiveStep(t) ==
    \/ RlEntry(t) \/ RlTestExpired(t) \/ RlReset(t) \/ RlTestLimit(t) \/ RlIncrement(t)
    \/ GetLookup(t)
    \/ \E o \in FetchOutcomes : FetchJwks(t, o)
    \/ GetInsert(t)
    \/ VtFind(t)

\* the executor polls every ready task, and tokio's Mutex and RwLock grant a
\* waiter the lock in its turn
Fairness ==
    \A t \in RlTasks :
        /\ WF_vars(LiveStep(t))
        /\ SF_vars(RlLock(t))
        /\ SF_vars(GetReadLock(t))
        /\ SF_vars(GetWriteLock(t))

\* the monotonic clock advances until the first window has expired
LiveTick ==
    /\ clock < window_duration
    /\ Tick

\* two concurrent requests of one client pass the rate limiter and the JWKS
\* validator with one issuer configured
\* the wall clock advances until a cached key set has expired
LiveSysTick ==
    /\ sysclock < jwks_cache_duration
    /\ SysTick

LiveNext ==
    \/ LiveTick
    \/ LiveSysTick
    \/ \E t \in RlTasks : CnCall(t, Loopback)
    \/ \E t \in RlTasks : RlLock(t)
    \/ \E t \in RlTasks : RlEntry(t)
    \/ \E t \in RlTasks : RlTestExpired(t)
    \/ \E t \in RlTasks : RlReset(t)
    \/ \E t \in RlTasks : RlTestLimit(t)
    \/ \E t \in RlTasks : RlIncrement(t)
    \/ \E t \in RlTasks, tok \in CancelTokens : CnValidate(t, tok)
    \/ \E t \in RlTasks : GetReadLock(t)
    \/ \E t \in RlTasks : GetLookup(t)
    \/ \E t \in RlTasks, o \in FetchOutcomes : FetchJwks(t, o)
    \/ \E t \in RlTasks : GetWriteLock(t)
    \/ \E t \in RlTasks : GetInsert(t)
    \/ \E t \in RlTasks : VtFind(t)
    \/ \E t \in RlTasks : CnUnwind(t)
    \/ \E t \in RlTasks : CnRespond(t)
SpecLive == InitCancel /\ [][LiveNext]_vars /\ Fairness

(* ======== the limiter built from the loaded configuration ======== *)

\* Config::load accepts rate_limit.max_requests when it is at least 1
\* (config.rs lines 63-64 and 143-147)
AcceptedMaxRequests(v) == v.hi > 0 \/ v.lo > 0

\* RateLimitConfig::from(&config.rate_limit) (rate_limit.rs lines 62-70) for
\* every accepted max_requests below and at or above 2^32, then
\* RateLimiter::new; requests call check_rate_limit concurrently
InitConv ==
    /\ \E hi \in 0..1, lo \in 0..MaxLimit :
          /\ AcceptedMaxRequests(U64(hi, lo))
          /\ cfg_max_requests = U64(hi, lo)
    /\ max_requests = AsU32(cfg_max_requests)
    /\ rl_enabled \in BOOLEAN
    /\ window_duration \in 1..MaxWindow
    /\ windows = << >>
    /\ rl_mutex = NoTask
    /\ clock = 0
    /\ rl_pc = [t \in RlTasks |-> "idle"]
    /\ rl_ip = [t \in RlTasks |-> "ipA"]
    /\ rl_now = [t \in RlTasks |-> 0]
    /\ rl_res = [t \in RlTasks |-> NoResult]
    /\ rl_seen = [t \in RlTasks |-> 0]
    /\ rl_log = [i \in Ips |-> << >>]
    /\ rl_resets = [i \in Ips |-> << >>]
    /\ rl_calls = 0
    /\ AuthInit /\ CfgPlain /\ StackIdle
    /\ active = {} /\ a_budget = 0
SpecConv == InitConv /\ [][RlNext]_vars

(* ================== the in-memory item repository ================== *)

\* Item { id, name, description, created_at, updated_at } (models/item.rs)
Item(id, name, description, now) ==
    [id |-> id, name |-> name, description |-> description,
     created_at |-> now, updated_at |-> now]

\* names and descriptions of the requests
ItemNames == {"a", "b"}
ItemDescriptions == {None, "d"}
\* the ids a caller may ask for: those create can return, and 0, which it never returns
ProbeIds == 0..MaxItems

\* DatabaseResult of a call: Ok(item), Ok(n), Ok(()) or Err(NotFound)
RepoOk(op, id, item, n) == [op |-> op, id |-> id, kind |-> "Ok", item |-> item, n |-> n]
RepoNotFound(op, id) == [op |-> op, id |-> id, kind |-> "NotFound", item |-> << >>, n |-> 0]

\* HashMap::insert and HashMap::remove
MapInsert(m, k, v) == [x \in DOMAIN m \cup {k} |-> IF x = k THEN v ELSE m[x]]
MapRemoveNothing(m, k) == m
MapRemove(m, k) == [x \in DOMAIN m \ {k} |-> m[x]]

\* count (lines 71-74)
RepoCount ==
    /\ repo_last' = RepoOk("count", 0, << >>, Cardinality(DOMAIN data))
    /\ UNCHANGED <<data, id_next, live>>
    /\ UNCHANGED <<rl_vars, auth_vars, cfg_vars, conv_vars, drop_vars, vca_vars,
                   stage_vars, pl_vars, out_vars>>

\* get (lines 76-79)
RepoGet(id) ==
    /\ repo_last' = IF id \in DOMAIN data THEN RepoOk("get", id, data[id], 0)
                    ELSE RepoNotFound("get", id)
    /\ UNCHANGED <<data, id_next, live>>
    /\ UNCHANGED <<rl_vars, auth_vars, cfg_vars, conv_vars, drop_vars, vca_vars,
                   stage_vars, pl_vars, out_vars>>

\* create (lines 81-96): a fresh Uuid, both timestamps now
RepoCreate(name, description) ==
    /\ id_next <= MaxItems
    /\ LET item == Item(id_next, name, description, sysclock)
       IN /\ data' = MapInsert(data, id_next, item)
          /\ repo_last' = RepoOk("create", id_next, item, 0)
    /\ live' = live \cup {id_next}
    /\ id_next' = id_next + 1
    /\ UNCHANGED <<rl_vars, auth_vars, cfg_vars, conv_vars, drop_vars, vca_vars,
                   stage_vars, pl_vars, out_vars>>

\* update (lines 98-112): NotFound through `?`, otherwise the fields the
\* request carries and updated_at
RepoUpdate(id, name, description) ==
    /\ IF id \in DOMAIN data
       THEN LET item == [data[id] EXCEPT
                            !.name = IF name # None THEN name ELSE @,
                            !.description = IF description # None THEN description ELSE @,
                            !.updated_at = sysclock]
            IN /\ data' = MapInsert(data, id, item)
               /\ repo_last' = RepoOk("update", id, item, 0)
       ELSE /\ repo_last' = RepoNotFound("update", id)
            /\ UNCHANGED data
    /\ UNCHANGED <<id_next, live>>
    /\ UNCHANGED <<rl_vars, auth_vars, cfg_vars, conv_vars, drop_vars, vca_vars,
                   stage_vars, pl_vars, out_vars>>

\* delete (lines 114-120)
RepoDelete(id) ==
    /\ IF id \in DOMAIN data
       THEN /\ data' = MapRemove(data, id)
            /\ repo_last' = RepoOk("delete", id, << >>, 0)
       ELSE /\ repo_last' = RepoNotFound("delete", id)
            /\ UNCHANGED data
    /\ live' = live \ {id}
    /\ UNCHANGED id_next
    /\ UNCHANGED <<rl_vars, auth_vars, cfg_vars, conv_vars, drop_vars, vca_vars,
                   stage_vars, pl_vars, out_vars>>

\* InMemoryItemRepository::new (lines 44-50), then any sequence of calls
\* while the wall clock advances
InitRepo == RlQuiet /\ AuthInit /\ CfgPlain /\ CallersIdle /\ active = {} /\ a_budget = 0
RepoNext ==
    \/ SysTick
    \/ RepoCount
    \/ \E id \in ProbeIds : RepoGet(id)
    \/ \E name \in ItemNames, description \in ItemDescriptions : RepoCreate(name, description)
    \/ \E id \in ProbeIds, name \in {None, "b"}, description \in {None, "e"} :
          RepoUpdate(id, name, description)
    \/ \E id \in ProbeIds : RepoDelete(id)
SpecRepo == InitRepo /\ [][RepoNext]_vars

(* --------------------- properties of the JWKS cache ------------------- *)

\* positions of get_jwks after its lookup, up to its return
AfterLookup == {"fetching", "write_lock", "insert", "find"}
\* positions of get_jwks between a miss and the end of the refresh
Refreshing == {"fetching", "write_lock", "insert"}

\* C4: a get_jwks whose lookup finds a live entry (now - fetched_at < ttl)
\* returns the cached key set and issues no fetch; a get_jwks whose lookup
\* finds no entry or an entry at or past its TTL issues exactly one fetch.
C4_LiveEntryServedWithoutFetch ==
    \A t \in AuthTasks :
        a_pc[t] \in AfterLookup =>
            IF a_seen[t].present /\ a_seen[t].live
            THEN /\ a_issued[t] = 0
                 /\ a_pc[t] = "find"
                 /\ a_get[t] = GetOk(a_seen[t].jwks)
            ELSE a_issued[t] = 1

\* C4 witness: a call found the entry expired, fetched once and returned
C4_Witness ==
    \E t \in AuthTasks :
        /\ a_pc[t] = "find"
        /\ a_seen[t].present /\ ~a_seen[t].live
        /\ a_issued[t] = 1
        /\ a_get[t].kind = "Ok"

\* C5: the step in which a fetch fails makes get_jwks return JwksFetchError
\* and leaves the cache map as it was (no entry evicted, changed or created);
\* the cache changes only in the insert of a refresher whose fetch succeeded.
C5_FetchFailureLeavesCache ==
    [][ /\ \A t \in AuthTasks :
            (a_pc[t] = "fetching" /\ a_pc'[t] # "fetching" /\ a_pc'[t] # "write_lock") =>
                /\ a_pc'[t] = "find"
                /\ a_get'[t] = GetErr
                /\ jwks_cache' = jwks_cache
        /\ jwks_cache' # jwks_cache => \E t \in AuthTasks : a_pc[t] = "insert"
      ]_vars

\* C5 witness: the refresh of an existing entry failed and the entry is still there
C5_Witness ==
    \E t \in AuthTasks :
        /\ a_pc[t] = "find"
        /\ a_get[t].kind = "JwksFetchError"
        /\ a_seen[t].present
        /\ UrlOf(t) \in DOMAIN jwks_cache
        /\ jwks_cache[UrlOf(t)].jwks = a_seen[t].jwks

C7_EntryIsOneCompleteFetch ==
    /\ \A u \in DOMAIN jwks_cache :
          /\ jwks_cache[u].jwks \in published[u]
          /\ jwks_cache[u].fetched_at <= sysclock
    /\ writer # NoTask => readers = {}
    /\ (\E t \in AuthTasks : a_pc[t] # "idle") => \E t \in AuthTasks : ENABLED AuthStep(t)

\* C7 witness: two refreshers of one URL both inserted, with different fetch results
C7_Witness ==
    \E t1, t2 \in AuthTasks :
        /\ t1 # t2
        /\ a_pc[t1] = "find" /\ a_pc[t2] = "find"
        /\ a_idx[t1] = a_idx[t2]
        /\ a_issued[t1] = 1 /\ a_issued[t2] = 1
        /\ a_get[t1].kind = "Ok" /\ a_get[t2].kind = "Ok"
        /\ a_get[t1].jwks # a_get[t2].jwks

\* C8 as claimed: once no refresher is at work, the cached key set of a URL is
\* the result of the fetch that completed last.
C8_LastFetchWins ==
    (\A t \in AuthTasks : a_pc[t] \notin Refreshing) =>
        \A u \in DOMAIN jwks_cache : jwks_cache[u].jwks = last_fetch[u]

\* C8 amended: once no refresher is inserting, the cached key set of a URL is
\* the result of the refresher that took the write lock last (the last writer
\* wins, whichever fetch completed first).
C8_LastWriterWins ==
    \A u \in DOMAIN jwks_cache :
        (\A t \in AuthTasks : ~(a_pc[t] = "insert" /\ UrlOf(t) = u)) =>
            jwks_cache[u].jwks = last_locked[u]

\* C8 witness: all refreshers finished and an earlier fetch overwrote a later one
C8_Witness ==
    /\ \A t \in AuthTasks : a_pc[t] \notin Refreshing
    /\ \E u \in DOMAIN jwks_cache :
          /\ jwks_cache[u].jwks # last_fetch[u]
          /\ jwks_cache[u].jwks = last_locked[u]

\* C9 as claimed: of the requests that found one and the same entry missing or
\* expired, no more than two have a fetch in flight.
C9_AtMostOneRedundantFetch ==
    \A t0 \in AuthTasks :
        Cardinality({t \in AuthTasks : /\ a_pc[t] = "fetching"
                                       /\ a_idx[t] = a_idx[t0]
                                       /\ a_seen[t] = a_seen[t0]}) <= 2

\* C10: a task whose fetch is in flight holds neither guard of the cache
\* lock; the read guard is held only during the lookup and the write guard
\* only during the insert.
C10_NoLockAcrossFetch ==
    \A t \in AuthTasks :
        /\ a_pc[t] = "fetching" => (t \notin readers /\ writer # t)
        /\ t \in readers => a_pc[t] = "lookup"
        /\ writer = t => a_pc[t] = "insert"

\* C10 witness: while one task's fetch is in flight another task holds the read guard
C10_Witness ==
    \E t1, t2 \in AuthTasks :
        /\ t1 # t2
        /\ a_pc[t1] = "fetching"
        /\ a_pc[t2] = "lookup" /\ t2 \in readers

(* ------------------- properties of the token validator ---------------- *)

\* AuthConfig.jwks_urls as a set
Configured == {jwks_urls[i] : i \in 1..url_count}
\* decode_header succeeded and the header carries a kid
HeaderAccepted(tok) == tok.wellformed /\ tok.kid # NoKid
NoMatchingKey == InvalidToken("No matching key found in JWKS")

\* C11: a validate_token whose token carries a kid that no configured issuer
\* has published in any key set, or for which every configured issuer's
\* get_jwks failed, or for which no get_jwks returned a key set with the kid
\* (the empty issuer list included), returns
\* InvalidToken("No matching key found in JWKS").
C11_NoMatchingKey ==
    \A t \in AuthTasks :
        (a_pc[t] = "done" /\ HeaderAccepted(a_tok[t])) =>
            /\ (\A u \in Configured : \A ks \in published[u] : a_tok[t].kid \notin ks)
                  => a_res[t] = NoMatchingKey
            /\ Configured \subseteq a_failed[t] => a_res[t] = NoMatchingKey
            /\ Configured \subseteq a_miss[t] => a_res[t] = NoMatchingKey

\* C11 witness: both issuers are configured, one of them publishes the kid,
\* every fetch failed and the call ended with "No matching key found in JWKS"
C11_Witness ==
    \E t \in AuthTasks :
        /\ a_pc[t] = "done" /\ HeaderAccepted(a_tok[t])
        /\ url_count = Len(jwks_urls)
        /\ a_failed[t] = Configured
        /\ \E u \in Configured : a_tok[t].kid \in served[u]
        /\ a_res[t] = NoMatchingKey

\* C12: a validate_token on a token whose header is malformed or has no kid
\* returns InvalidToken in its first step: it never reaches a key-set lookup,
\* issues no fetch, takes no guard of the cache, and the step leaves the
\* cache as it was.
C12_HeaderRejectedBeforeLookup ==
    /\ [](\A t \in AuthTasks :
            (a_pc[t] # "idle" /\ ~HeaderAccepted(a_tok[t])) =>
                /\ a_pc[t] = "done"
                /\ a_res[t].kind = "InvalidToken"
                /\ a_idx[t] = 0 /\ a_issued[t] = 0
                /\ a_miss[t] = {} /\ a_failed[t] = {}
                /\ t \notin readers /\ writer # t)
    /\ [][\A t \in AuthTasks :
            (a_pc[t] = "idle" /\ a_pc'[t] # "idle" /\ ~HeaderAccepted(a_tok'[t])) =>
                /\ jwks_cache' = jwks_cache
                /\ a_pc'[t] = "done"]_vars

\* C12 witness: a token without kid was rejected while the cache holds the key
\* the token claims to be signed with
C12_Witness ==
    \E t \in AuthTasks :
        /\ a_pc[t] = "done"
        /\ a_tok[t].wellformed /\ a_tok[t].kid = NoKid
        /\ a_res[t] = InvalidToken("Missing kid in JWT header")
        /\ \E u \in DOMAIN jwks_cache : a_tok[t].signer.kid \in jwks_cache[u].jwks

\* C13: a get_jwks error never ends validate_token: after a failure the loop
\* goes on, so a call ends without a key only after every configured URL was
\* tried, and when a later issuer that did not fail has the kid in every key
\* set it published, the token is verified against that issuer's key (Ok
\* exactly when that key made the signature).
C13_FetchErrorContinues ==
    \A t \in AuthTasks :
        /\ a_pc[t] \notin {"idle", "done"} => a_res[t] = NoAuthResult
        /\ (a_pc[t] = "done" /\ a_failed[t] # {}) =>
              /\ a_match[t] = "none" =>
                    (Configured \subseteq a_miss[t] /\ a_res[t] = NoMatchingKey)
              /\ a_match[t] # "none" =>
                    /\ a_match[t] \notin a_failed[t]
                    /\ a_res[t] = IF a_tok[t].signer = KeyOf(a_match[t], a_tok[t].kid)
                                  THEN VtOk(ClaimsOf(a_tok[t]))
                                  ELSE InvalidToken("decode")
              /\ (\E u \in Configured \ a_failed[t] :
                      \A ks \in published[u] : a_tok[t].kid \in ks)
                    => a_match[t] # "none"

\* C13 witness: the first issuer's fetch failed and the token was accepted
\* with the second issuer's key
C13_Witness ==
    \E t \in AuthTasks :
        /\ a_pc[t] = "done"
        /\ a_failed[t] = {jwks_urls[1]}
        /\ a_match[t] = jwks_urls[2]
        /\ a_res[t] = VtOk(ClaimsOf(a_tok[t]))

\* the first configured URL, in declaration order, whose get_jwks did not fail
\* in the running call and whose issuer publishes the kid of the token (0: none)
FirstHolder(t) ==
    LET S == {i \in 1..url_count : /\ jwks_urls[i] \notin a_failed[t]
                                   /\ a_tok[t].kid \in served[jwks_urls[i]]}
    IN IF S = {} THEN 0 ELSE CHOOSE i \in S : \A j \in S : i <= j
\* the token is not expired, and its aud and iss are the configured ones (an
\* iss is free when no issuer is configured)
Unexpired(tok) == tok.exp >= sysclock
ClaimsMatch(tok) == tok.aud = audience /\ (issuer = None \/ tok.iss = issuer)
\* the header algorithm is one of the family of the key that signed
SignedAsDeclared(tok) == AlgFamily(tok.alg) = KeyFamily(tok.signer)

C15_MismatchOrExpiredRejected ==
    \A t \in AuthTasks :
        (a_pc[t] = "done" /\ HeaderAccepted(a_tok[t]) /\ a_match[t] # "none") =>
            /\ (audience # None /\ a_tok[t].aud # audience) => a_res[t].kind = "InvalidToken"
            /\ (issuer # None /\ a_tok[t].iss # issuer) => a_res[t].kind = "InvalidToken"
            /\ a_tok[t].exp < sysclock => a_res[t].kind = "InvalidToken"

C17_ClientAssertionFailsClosed ==
    \A t \in AuthTasks :
        /\ vca_pc[t] = "returned" => vca_res[t].kind \in {"Ok", "InvalidToken"}
        /\ vca_pc[t] # "returned" => vca_res[t] = NoVcaResult
        /\ (vca_pc[t] = "returned" /\ a_pc[t] = "done") =>
              (vca_res[t].kind = "Ok" <=>
                  /\ a_res[t].kind = "Ok"
                  /\ a_res[t].claims.sub = vca_cid[t]
                  /\ a_res[t].claims.iss \in {None, vca_cid[t]}
                  /\ a_tok[t].sub = vca_cid[t]
                  /\ a_tok[t].iss \in {None, vca_cid[t]})

\* C17 witness: an assertion that validate_token accepted, whose sub is the
\* client_id but whose iss is somebody else, was refused
C17_Witness ==
    \E t \in AuthTasks :
        /\ vca_pc[t] = "returned" /\ a_pc[t] = "done"
        /\ a_res[t].kind = "Ok"
        /\ a_res[t].claims.sub = vca_cid[t]
        /\ a_res[t].claims.iss = "issB"
        /\ vca_res[t] = VcaErr("InvalidToken", "Client ID mismatch in iss claim")

(* ------------------ properties of the middleware stack ---------------- *)

\* C18: the token-validation stage never rejects a request. Whatever it finds
\* (authentication disabled, no Authorization header, a header without the
\* Bearer prefix, a token that fails validation, key sets that cannot be
\* fetched) it attaches no Claims unless the validation succeeded, produces no
\* response of its own, and invokes the next stage exactly once: a request
\* that was answered went through the stage and then through the next stage
\* once, and the answer is the next stage's.
C18_TokenStageNeverRejects ==
    \A t \in RlTasks :
        /\ p_pc[t] \in {"validate", "business"} => p_resp[t] = NoResponse
        /\ p_pc[t] = "business" => p_trace[t] = <<"auth">>
        /\ p_pc[t] = "responded" =>
              /\ p_trace[t] = <<"auth", "business">>
              /\ p_resp[t] = Response("200", None)
        /\ p_auth[t] # "accepted" => p_claims[t] = NoClaims
        /\ (p_pc[t] = "business" /\ a_pc[t] = "done" /\ a_res[t].kind # "Ok") =>
              /\ p_auth[t] = "rejected"
              /\ p_claims[t] = NoClaims

\* C18 witness: a request whose Bearer token the first issuer signed was
\* validated against the key sets, the validation failed, and the request
\* was answered by the next stage, without Claims
C18_Witness ==
    \E t \in RlTasks :
        /\ auth_stage = "jwks"
        /\ p_pc[t] = "responded"
        /\ p_req[t].auth = "bearer"
        /\ p_req[t].token.signer = KeyOf(jwks_urls[1], "K1")
        /\ p_auth[t] = "rejected"
        /\ p_claims[t] = NoClaims
        /\ p_trace[t] = <<"auth", "business">>

\* a Bearer token with kid K1 that the first configured issuer signed with
\* its K1, while that issuer publishes K1
IssuerSigned(req) ==
    /\ req.auth = "bearer"
    /\ req.token.wellformed
    /\ req.token.kid = "K1"
    /\ req.token.signer = KeyOf(jwks_urls[1], "K1")
    /\ "K1" \in served[jwks_urls[1]]

\* C19: in the application as composed, with authentication enabled, a
\* request that carries a Bearer JWT with kid K1 signed by a configured issuer
\* whose key set is reachable and contains K1 reaches the business stage with
\* Claims attached whose sub is the token's sub.
C19_IssuerTokenReachesBusinessWithClaims ==
    \A t \in RlTasks :
        (/\ auth_enabled
         /\ "business" \in {p_trace[t][i] : i \in 1..Len(p_trace[t])}
         /\ IssuerSigned(p_req[t])) =>
            /\ p_claims[t] # NoClaims
            /\ p_claims[t].sub = p_req[t].token.sub

\* C20: a request that rate limiting blocks is answered 429 by the
\* rate-limiting stage: neither the token-validation stage nor the business
\* stage runs for it and no Claims are attached. Rate limiting is the only
\* stage that short-circuits: the stages run in the order of add_middleware,
\* and a request answered without the business stage was answered 429 right
\* after rate limiting.
C20_BlockedRequestStopsAtRateLimit ==
    \A t \in RlTasks :
        LET ran == {p_trace[t][i] : i \in 1..Len(p_trace[t])}
            order == Layers \o <<"business">>
        IN /\ Len(p_trace[t]) <= Len(order)
           /\ p_trace[t] = SubSeq(order, 1, Len(p_trace[t]))
           /\ p_resp[t].status = "429" =>
                 /\ p_pc[t] \in {"responded", "sent"}
                 /\ p_resp[t].retry_after = "60"
                 /\ "auth" \notin ran /\ "business" \notin ran
                 /\ p_auth[t] = "none" /\ p_claims[t] = NoClaims
           /\ (p_pc[t] \in {"responded", "sent"} /\ "business" \notin ran) =>
                 /\ p_resp[t].status = "429"
                 /\ p_trace[t][Len(p_trace[t])] = "rate_limit"
           /\ (p_pc[t] = "rate_limit" /\ rl_pc[t] = "done" /\ rl_res[t].kind = "Err") =>
                 ENABLED PlRateMatch(t)
           /\ (p_pc[t] = "responded" /\ "business" \in ran) => p_resp[t].status \in {"200", "500"}

\* C20 witness: a request was blocked and answered 429 after the five outer
\* stages, the last of them rate limiting
C20_Witness ==
    \E t \in RlTasks :
        /\ p_pc[t] = "responded"
        /\ p_resp[t] = Response("429", "60")
        /\ p_trace[t] = SubSeq(Layers, 1, 5)
        /\ rl_pc[t] = "idle"

(* ---------------- further properties of the rate limiter -------------- *)

\* C25 as claimed: when rate limiting is disabled, every check_rate_limit
\* returns Allowed with remaining = max_requests, for every identity and any
\* number of previous calls, in both implementations of the limiter.
C25_DisabledReportsFullRemaining ==
    \A t \in RlTasks :
        (~rl_enabled /\ rl_pc[t] = "done") =>
            /\ rl_res[t].kind = "Ok"
            /\ rl_res[t].limit = max_requests
            /\ rl_res[t].remaining = max_requests

\* C26: when rate limiting is disabled, check_rate_limit leaves the windows
\* map as it is: no entry is created, no count incremented, and the lock is
\* neither requested nor taken, however many calls are made.
C26_DisabledLeavesWindows ==
    ~rl_enabled =>
        /\ windows = << >>
        /\ rl_mutex = NoTask
        /\ \A t \in RlTasks : rl_pc[t] \in {"idle", "done"}
        /\ \A ip \in Ips : rl_log[ip] = << >> /\ rl_resets[ip] = << >>

\* C26 witness: the disabled limiter has answered every call of the behaviour
\* and one of them has just returned
C26_Witness ==
    /\ ~rl_enabled
    /\ rl_calls = MaxCalls
    /\ \E t \in RlTasks : rl_pc[t] = "done" /\ rl_res[t].kind = "Ok"

\* C27: a Blocked check does not increment the counter. In every reachable
\* state every window has 0 <= count <= max_requests; a check that is about
\* to be Blocked has neither reset nor counted, so the window is the one it
\* found; and the step that returns Blocked leaves the windows map unchanged.
C27_BlockedDoesNotIncrement ==
    /\ [](\A ip \in DOMAIN windows :
             windows[ip].count >= 0 /\ windows[ip].count <= max_requests)
    /\ [](\A t \in RlTasks :
             (rl_pc[t] = "limit" /\ windows[rl_ip[t]].count >= max_requests) =>
                 /\ rl_now[t] < rl_seen[t]
                 /\ windows[rl_ip[t]].reset_at = rl_seen[t])
    /\ [][\A t \in RlTasks :
             (rl_pc[t] # "done" /\ rl_pc'[t] = "done" /\ rl_res'[t] = RlErr) =>
                 /\ rl_pc[t] = "limit"
                 /\ windows' = windows]_vars

\* C27 witness: a call was Blocked on a full window that it found unexpired
C27_Witness ==
    \E t \in RlTasks :
        /\ rl_pc[t] = "done" /\ rl_res[t] = RlErr
        /\ rl_now[t] < rl_seen[t]
        /\ windows[rl_ip[t]].count = max_requests

\* C28 as claimed: a check that finds now >= reset_at resets count to 0 and
\* sets reset_at to the previous reset_at plus the window duration.
C28_ResetAdvancesFromPrevious ==
    [][\A t \in RlTasks :
          (rl_pc[t] = "reset" /\ rl_pc'[t] = "limit") =>
              windows'[rl_ip[t]] = [count |-> 0,
                                    reset_at |-> windows[rl_ip[t]].reset_at + window_duration]]_vars

\* C28 amended: a check that finds now >= reset_at resets count to 0 and sets
\* reset_at to now plus the window duration; the new reset_at is at least one
\* window duration after the previous one, and exactly one only when the
\* check runs at the instant the window expires.
C28_ResetAdvancesFromNow ==
    [][\A t \in RlTasks :
          (rl_pc[t] = "reset" /\ rl_pc'[t] = "limit") =>
              LET prev == windows[rl_ip[t]].reset_at
                  new == windows'[rl_ip[t]]
              IN /\ rl_now[t] >= prev
                 /\ new.count = 0
                 /\ new.reset_at = rl_now[t] + window_duration
                 /\ new.reset_at >= prev + window_duration
                 /\ (new.reset_at = prev + window_duration) <=> (rl_now[t] = prev)]_vars

\* C28 witness: a window was reset later than the instant it expired, so its
\* new reset_at is more than one window duration after the previous one
C28_Witness ==
    \E t \in RlTasks :
        /\ rl_pc[t] = "limit"
        /\ Len(rl_resets[rl_ip[t]]) > 0
        /\ rl_resets[rl_ip[t]][Len(rl_resets[rl_ip[t]])].reset_at + window_duration
              < windows[rl_ip[t]].reset_at

(* ------------- properties of the responses of the stack --------------- *)

\* C21 as claimed: every 429 response carries Retry-After: 60 and also the
\* rate headers X-RateLimit-Limit, X-RateLimit-Remaining and X-RateLimit-Reset.
C21_BlockedCarriesRetryAfterAndRateHeaders ==
    \A t \in RlTasks :
        (p_pc[t] = "sent" /\ p_resp[t].status = "429") =>
            /\ p_resp[t].retry_after = "60"
            /\ p_hdrs[t].rate_limit

\* the stages the order of C22 names, in the order it names them
ClaimedOrder ==
    <<"request_id", "version", "rate_limit", "security_headers", "auth", "business">>
Named(stage) == \E i \in 1..Len(ClaimedOrder) : ClaimedOrder[i] = stage

\* C22 as claimed: for every request the stages run in the order correlation
\* id, API version, rate-limit check, security headers, token validation,
\* business stage; the security-headers stage is entered only after the
\* rate-limit check has allowed the request.
C22_StagesInClaimedOrder ==
    \A t \in RlTasks :
        LET seen == SelectSeq(p_trace[t], Named)
        IN /\ seen = SubSeq(ClaimedOrder, 1, Len(seen))
           /\ \A i \in 1..Len(p_trace[t]) :
                 p_trace[t][i] = "security_headers" =>
                     \E j \in 1..(i - 1) : p_trace[t][j] = "rate_limit"

\* C23 as claimed: every response that leaves the stack, 429 responses and
\* error responses of the business stage included, carries X-Request-Id: the
\* inbound X-Request-Id value when the request had one, otherwise a freshly
\* generated id.
C23_RequestIdOnEveryResponse ==
    \A t \in RlTasks :
        p_pc[t] = "sent" =>
            IF p_in[t] # NoRid
            THEN p_hdrs[t].x_request_id = p_in[t]
            ELSE /\ p_hdrs[t].x_request_id.kind = "uuid"
                 /\ p_hdrs[t].x_request_id.n = uuid_next - 1

\* C24: every response to a request the enabled rate limiter allowed carries
\* X-RateLimit-Limit = max_requests, X-RateLimit-Remaining = max_requests minus
\* the count of the identity's window right after this request's increment,
\* and X-RateLimit-Reset = the seconds that were left until the window's
\* reset_at when the response passed the rate-limit stage; so
\* consecutive allowed requests of one identity within a window see
\* Remaining = limit-1, limit-2, ...
C24_AllowedCarriesRateHeaders ==
    \A t \in RlTasks :
        /\ (p_pc[t] = "rate_limit" /\ rl_pc[t] = "done" /\ rl_res[t].kind = "Ok" /\ rl_enabled) =>
              /\ windows[p_req[t].ip].count >= 1
              /\ rl_res[t].remaining = max_requests - windows[p_req[t].ip].count
              /\ rl_res[t].remaining = max_requests - Len(rl_log[p_req[t].ip])
        /\ (p_pc[t] = "sent" /\ p_resp[t].status # "429" /\ rl_enabled) =>
              /\ p_hdrs[t].rate_limit
              /\ p_hdrs[t].limit = max_requests
              /\ p_hdrs[t].remaining = max_requests - windows[p_req[t].ip].count
              /\ p_hdrs[t].remaining = max_requests - Len(rl_log[p_req[t].ip])
              /\ p_hdrs[t].reset >= SecondsUntil(windows[p_req[t].ip].reset_at, clock)
              /\ p_hdrs[t].reset <= window_duration

\* C24 witness: the second allowed request of an identity within one window
\* was answered with Remaining = limit - 2
C24_Witness ==
    \E t \in RlTasks :
        /\ p_pc[t] = "sent" /\ rl_enabled
        /\ p_resp[t].status = "200"
        /\ max_requests = MaxLimit
        /\ windows[p_req[t].ip].count = 2
        /\ p_hdrs[t].remaining = max_requests - 2

\* the first comma-separated entry of a header text, blanks aside, is exactly
\* the unit c
FirstIs(h, c) ==
    /\ h.present
    /\ LET stop == IF \E i \in 1..Len(h.text) : h.text[i] = ","
                   THEN CHOOSE i \in 1..Len(h.text) :
                            h.text[i] = "," /\ \A j \in 1..(i - 1) : h.text[j] # ","
                   ELSE Len(h.text) + 1
           solid == {k \in 1..(stop - 1) : h.text[k] # " "}
       IN solid # {} /\ \A k \in solid : h.text[k] = c /\ solid = {k}
\* the whole header text is exactly the unit c
WholeIs(h, c) == h.present /\ h.text = <<c>>
\* the address a unit is the text of
AddressOf(c) == IF c = "L" THEN "ipA" ELSE "ipB"

DropsFuture(t) ==
    /\ At(t) \notin {"idle", "rate_limit"}
    /\ rl_pc'[t] = "idle"
    /\ a_pc'[t] = "idle"

\* whenever nobody is inside check_rate_limit's guarded section, every window
\* counts exactly the calls that were Allowed since its last reset, at least one
WindowsWhole ==
    rl_mutex = NoTask =>
        \A ip \in DOMAIN windows :
            /\ windows[ip].count >= 1
            /\ windows[ip].count <= max_requests
            /\ windows[ip].count =
                   Cardinality({i \in 1..Len(rl_log[ip]) : rl_log[ip][i].kind = "Ok"})

\* every cache entry is one complete key set its issuer published
CacheWhole ==
    \A u \in DOMAIN jwks_cache :
        /\ jwks_cache[u].jwks \in published[u]
        /\ jwks_cache[u].fetched_at <= sysclock

\* a lock is held only by a request that is inside the section it guards
GuardsOwned ==
    \A t \in RlTasks :
        /\ rl_mutex = t => rl_pc[t] \in RlCritical
        /\ t \in readers => a_pc[t] = "lookup"
        /\ writer = t => a_pc[t] = "insert"

\* C30: cancelling a request at any of its suspension points (waiting for the
\* limiter's lock, waiting for a cache lock, during the JWKS fetch, while the
\* stages after it run) leaves the shared state consistent: each window is
\* fully updated or untouched, each cache entry is the previous one or a
\* complete new one, and the cancelled request holds no lock: the step that
\* drops it changes neither the windows, nor the cache, nor who holds a lock.
C30_CancellationLeavesStateConsistent ==
    /\ [](WindowsWhole /\ CacheWhole /\ GuardsOwned)
    /\ [][\A t \in RlTasks :
             DropsFuture(t) =>
                 /\ windows' = windows
                 /\ jwks_cache' = jwks_cache
                 /\ rl_mutex' = rl_mutex /\ readers' = readers /\ writer' = writer
                 /\ rl_mutex' # t /\ t \notin readers' /\ writer' # t]_vars

\* C30 witness: requests were cancelled while waiting for the limiter's lock,
\* during a JWKS fetch and while the stages after validation ran; a window
\* and a cache entry exist and nobody holds a lock
C30_Witness ==
    /\ {"lock", "fetching", "downstream"} \subseteq dropped
    /\ \E ip \in DOMAIN windows : windows[ip].count >= 1
    /\ DOMAIN jwks_cache # {}
    /\ rl_mutex = NoTask /\ readers = {} /\ writer = NoTask

(* ---------------- the order in which issuers are consulted ------------- *)

\* the URLs before position i of the list
UrlsBefore(i) == {jwks_urls[j] : j \in 1..(i - 1)}

\* C33: validate_token consults the issuers in declaration order (the loop
\* index only moves to the next URL, and the URLs passed are exactly those
\* before it) and decides on the first issuer whose key set holds the kid:
\* the step that finds the kid ends the call with the outcome of verifying
\* against that issuer's key, and no later issuer was fetched or tried, even
\* when the verification failed.
C33_FirstIssuerWithKidDecides ==
    /\ [](\A t \in AuthTasks :
            /\ (a_pc[t] \notin {"idle", "done"}) =>
                   a_miss[t] = UrlsBefore(a_idx[t])
            /\ (a_pc[t] = "done" /\ a_match[t] # "none") =>
                   /\ a_match[t] = jwks_urls[a_idx[t]]
                   /\ a_miss[t] = UrlsBefore(a_idx[t])
                   /\ a_failed[t] \subseteq UrlsBefore(a_idx[t])
                   /\ a_res[t] = IF a_tok[t].signer = KeyOf(a_match[t], a_tok[t].kid)
                                 THEN VtOk(ClaimsOf(a_tok[t]))
                                 ELSE InvalidToken("decode"))
    /\ [][\A t \in AuthTasks :
            /\ (a_idx'[t] # a_idx[t]) =>
                   (a_idx'[t] = a_idx[t] + 1 \/ (a_pc[t] = "done" /\ a_idx'[t] = 0))
            /\ (a_pc[t] = "find" /\ a_get[t].kind = "Ok" /\ a_tok[t].kid \in a_get[t].jwks) =>
                   (a_pc'[t] = "find" \/ (a_pc'[t] = "done" /\ a_match'[t] = UrlOf(t)))]_vars

\* C33 witness: the first issuer holds a key with the token's kid, the token
\* was signed by the second issuer's key of the same kid, which that issuer
\* serves; the call ended in InvalidToken at the first issuer and the second
\* was never tried
C33_Witness ==
    \E t \in AuthTasks :
        /\ url_count = Len(jwks_urls)
        /\ a_pc[t] = "done"
        /\ a_match[t] = jwks_urls[1]
        /\ a_tok[t].signer = KeyOf(jwks_urls[2], a_tok[t].kid)
        /\ a_tok[t].kid \in served[jwks_urls[2]]
        /\ a_res[t] = InvalidToken("decode")
        /\ a_miss[t] = {} /\ a_failed[t] = {}

(* ------------- the limit the limiter was configured with --------------- *)

\* C35 as claimed: for every accepted configuration the limiter's
\* max_requests is the configured value (the conversion to 32 bits never
\* changes it), so the first check of an identity's window is never Blocked.
C35_ConversionKeepsLimit ==
    /\ cfg_max_requests = U64(0, max_requests)
    /\ rl_enabled => \A ip \in Ips : Len(rl_log[ip]) >= 1 => rl_log[ip][1] # RlErr

(* ------------------- properties of the item repository ----------------- *)

\* C32: after any sequence of create/update/delete calls the store holds
\* exactly the ids that a create returned and no delete removed since: a get,
\* update or delete succeeds exactly for those ids (and a get returns the item
\* stored under the id asked for), count returns their number, a create
\* returns an id not returned before, and a call that returns NotFound leaves
\* the store unchanged.
C32_StoreHoldsCreatedNotDeleted ==
    /\ [](/\ DOMAIN data = live
          /\ \A id \in DOMAIN data : data[id].id = id)
    /\ [][(repo_last' # repo_last) =>
             LET r == repo_last' IN
             /\ r.op \in {"get", "update", "delete"} => (r.kind = "Ok" <=> r.id \in live)
             /\ r.op \in {"get", "update"} /\ r.kind = "Ok" => r.item = data'[r.id]
             /\ r.op = "delete" /\ r.kind = "Ok" => r.id \notin DOMAIN data'
             /\ r.op = "count" => r.n = Cardinality(live) /\ data' = data
             /\ r.op = "create" => r.id \notin live /\ r.id \in live' /\ r.id >= id_next
             /\ r.kind = "NotFound" => data' = data /\ live' = live
             /\ r.op = "get" => data' = data]_vars

\* C32 witness: two items were created and one of them deleted; a get of the
\* deleted id returned NotFound while the other item is still stored
C32_Witness ==
    /\ id_next = 3
    /\ Cardinality(live) = 1
    /\ repo_last.op = "get" /\ repo_last.kind = "NotFound"
    /\ repo_last.id \in 1..2

(* ------------------ the token-validation stage, disabled --------------- *)

\* C36: with auth.enabled false the token-validation stage, in either
\* implementation, is a pass-through: validate_token is never called (no
\* lookup, no fetch, no guard, the cache stays empty), no Claims are attached
\* whatever token the request carries, and the next stage runs exactly once.
C36_DisabledAuthPassesThrough ==
    ~auth_enabled =>
        /\ jwks_cache = << >> /\ readers = {} /\ writer = NoTask
        /\ \A t \in AuthTasks : a_pc[t] = "idle" /\ a_issued[t] = 0
        /\ \A t \in RlTasks :
              /\ p_pc[t] # "validate"
              /\ p_claims[t] = NoClaims
              /\ p_auth[t] \in {"none", "disabled"}
              /\ p_pc[t] = "business" => p_trace[t] = <<"auth">>
              /\ p_pc[t] = "responded" => p_trace[t] = <<"auth", "business">>

\* C36 witness: with auth disabled a request carrying a Bearer token signed
\* with the configured secret was answered by the next stage, without Claims
C36_Witness ==
    \E t \in RlTasks :
        /\ ~auth_enabled
        /\ auth_stage = "secret" /\ jwt_secret = "s3cret"
        /\ p_pc[t] = "responded"
        /\ p_req[t].auth = "bearer"
        /\ p_req[t].token.signer = SecretKey(jwt_secret)
        /\ p_claims[t] = NoClaims
        /\ p_trace[t] = <<"auth", "business">>

(* ------------------------ the security headers ------------------------- *)

C34_IdentitiesIndependent ==
    /\ [](\A ip \in Ips : \A i \in 1..Len(rl_log[ip]) :
            rl_log[ip][i] = RlErr =>
                Cardinality({j \in 1..(i - 1) : rl_log[ip][j].kind = "Ok"}) = max_requests)
    /\ [][\A ip \in Ips :
            (ip \in DOMAIN windows' /\ (ip \notin DOMAIN windows \/ windows'[ip] # windows[ip]))
                => \E t \in RlTasks : rl_mutex = t /\ rl_ip[t] = ip]_vars

\* C34 witness: one identity used up its limit and was Blocked; within that
\* window a call of another identity returned Allowed
C34_Witness ==
    \E a, b \in Ips, t \in RlTasks :
        /\ a # b /\ rl_enabled
        /\ a \in DOMAIN windows
        /\ windows[a].count = max_requests
        /\ Len(rl_log[a]) > max_requests
        /\ rl_log[a][Len(rl_log[a])] = RlErr
        /\ rl_pc[t] = "done" /\ rl_ip[t] = b /\ rl_res[t].kind = "Ok"
        /\ rl_now[t] < windows[a].reset_at

(* ------------------------- progress of the calls ----------------------- *)

\* positions inside get_jwks
InGetJwks == {"read_lock", "lookup", "fetching", "write_lock", "insert"}

\* C31: with every fetch completing or failing and fair scheduling, no call
\* blocks for ever: every check_rate_limit that was entered returns, every
\* get_jwks returns to validate_token, and every validate_token returns,
\* whatever the concurrent requests do (no deadlock on or between the
\* limiter's lock and the cache lock).
C31_EveryCallReturns ==
    \A t \in RlTasks :
        /\ (rl_pc[t] \notin {"idle", "done"}) ~> (rl_pc[t] = "done")
        /\ (a_pc[t] \in InGetJwks) ~> (a_pc[t] \in {"find", "done"})
        /\ (a_pc[t] \notin {"idle", "done"}) ~> (a_pc[t] = "done")

\* C31 witness: one request waits for the write lock of the cache while
\* another, past the limiter, holds the read lock
C31_Witness ==
    \E t1, t2 \in RlTasks :
        /\ t1 # t2
        /\ a_pc[t1] = "write_lock"
        /\ a_pc[t2] = "lookup" /\ t2 \in readers

====
